---- MODULE Spec2Model ----
(***************************************************************************)
(* A model of the SDMX engine of the repository (src/src/pull_oecd.py, and *)
(* the key builder of src/src/pull_bis.py): the retrying HTTP fetchers,    *)
(* the structure cache, the key builder and the observation decoder.       *)
(*                                                                         *)
(* Text is modelled as a sequence of symbols: a code or a name is one      *)
(* symbol, a delimiter ("." "+" ":") or a digit is one symbol.  Splitting, *)
(* joining and integer parsing are computed on these sequences.            *)
(*                                                                         *)
(* Each component has its own specification (SpecFetch, SpecStructure,    *)
(* SpecKey, SpecDecode) over its own variables; the variables of the other *)
(* components stay at their initial value.                                 *)
(***************************************************************************)
EXTENDS Integers, Sequences, FiniteSets, TLC

(***************************************************************************)
(* Bounds of the model.                                                    *)
(***************************************************************************)
MaxRetries == 3

MaxDims == 2

MaxTemplateLen == 3

MaxCalls == 2

MaxObsDims == 2

MaxObs == 2

MaxValues == 2

MaxCatalogDims == 3

\* the largest total count the Data360 server reports
MaxTotal == 4

\* the largest number of records of a Data360 page
MaxPage == 2

\* the years before 2009 and after 2016 a pull may ask for
MaxYearsAround == 3

\* the largest number of resolved country codes of a BIS pull
MaxCodes == 4

\* the largest BIS_REF_AREA_BATCH_SIZE
MaxBatch == 3

(***************************************************************************)
(* Generic helpers on symbol sequences.                                    *)
(***************************************************************************)
Digits == {"0", "1", "2", "3", "4", "5", "6", "7", "8", "9"}

DigitVal(c) ==
  CASE c = "0" -> 0 [] c = "1" -> 1 [] c = "2" -> 2 [] c = "3" -> 3
    [] c = "4" -> 4 [] c = "5" -> 5 [] c = "6" -> 6 [] c = "7" -> 7
    [] c = "8" -> 8 [] c = "9" -> 9

\* str.isdigit(): non-empty and every character a digit
isdigit(s) == Len(s) > 0 /\ \A i \in 1..Len(s) : s[i] \in Digits

\* int(s) for a string of digits
RECURSIVE int_digits(_)
int_digits(s) ==
  IF Len(s) = 0 THEN 0
  ELSE 10 * int_digits(SubSeq(s, 1, Len(s) - 1)) + DigitVal(s[Len(s)])

RECURSIVE Pow2(_)
Pow2(n) == IF n = 0 THEN 1 ELSE 2 * Pow2(n - 1)

Max(a, b) == IF a >= b THEN a ELSE b

(***************************************************************************)
(* The retrying fetchers _get_json_with_retry and _get_text_with_retry.    *)
(***************************************************************************)
VARIABLES
  fn,            \* "json": _get_json_with_retry, "text": _get_text_with_retry
  session_auth,  \* getattr(session, "auth", None) is truthy
  max_retries,   \* the max_retries argument
  attempt,       \* the loop variable
  fpc,           \* position in the function
  response,      \* the local variable response (None before the first get)
  session_gets,  \* requests issued through the caller's session
  fallback_gets, \* requests issued through an anonymous fallback session
  slept,         \* the arguments of the calls of time.sleep, in order
  fetch_error    \* the exception that ended the call (NoError when none)

fetchVars == <<fn, session_auth, max_retries, attempt, fpc, response,
               session_gets, fallback_gets, slept, fetch_error>>

\* The key builders _build_key (OECD) and _build_key (BIS).
VARIABLES
  impl,          \* "oecd": pull_oecd._build_key, "bis": pull_bis._build_key
  series_dims,   \* the ids of the catalog's dimensions, in catalog order
  key_template,  \* the key template (OECD)
  overrides,     \* the override dict: <<dim id, value>> pairs in insertion order
  kpc,           \* "call", "returned" or "raised"
  key,           \* the key returned (NoKey when none)
  key_error      \* the exception raised (NoError when none)

keyVars == <<impl, series_dims, key_template, overrides, kpc, key, key_error>>

\* fetch_structure and the structure cache file.
VARIABLES
  cache,         \* the text of the file OECD_STRUCTURE_CACHE (NoFile when absent)
  calls,         \* calls of fetch_structure started so far
  flow_ref,      \* the flow_ref argument of the current call
  refresh,       \* OECD_STRUCTURE_REFRESH during the current call
  spc,           \* position in fetch_structure
  cand,          \* number of the candidate URL being tried
  net_calls,     \* calls of _get_text_with_retry made by the current call
  catalog,       \* the catalog returned by the current call (NoCatalog when none)
  struct_error,  \* the exception that ended the current call
  prev,          \* what the previous call did
  trail          \* the cache file at the entry of the current call, and the
                 \* requests the call issued with the status of their answers

structVars == <<cache, calls, flow_ref, refresh, spc, cand, net_calls, catalog,
                struct_error, prev, trail>>

\* The observation decoder _sdmx_json_to_tidy.
VARIABLES
  obs_dims,      \* payload["structure"]["dimensions"]["observation"]
  dim_rename,    \* the dim_rename argument: <<dim id, column>> pairs
  entries,       \* how many entries of the observation map were iterated
  entry,         \* the (key, obs) entry of the latest iteration
  rows,          \* the local variable rows
  dpc,           \* "loop", "returned" or "raised"
  decode_error   \* the exception raised (NoError when none)

decodeVars == <<obs_dims, dim_rename, entries, entry, rows, dpc, decode_error>>

\* The code lookup _find_code_by_label.
VARIABLES
  find_values,      \* dim_values.get(dim_id, []): the dimension's values
  patterns,         \* the patterns argument (<<>> also for None)
  preferred_codes,  \* the preferred_codes argument (<<>> also for None)
  allow_missing,    \* the allow_missing argument
  find_pc,          \* "call", "returned" or "raised"
  find_result,      \* the value returned
  find_error        \* the exception raised (NoError when none)

findVars == <<find_values, patterns, preferred_codes, allow_missing, find_pc,
              find_result, find_error>>

\* The pull pull_oecd_table_0720.
VARIABLES
  pull_catalog,   \* series_dims / dim_values, as fetch_structure returned them
  pull_template,  \* key_template, from the base URL
  ppc,            \* "start", "roles", "lists", "codes", "loop", "returned", "raised"
  roles,          \* the ..._dim locals: a dimension id or None
  ref_areas,      \* the local ref_areas
  instruments,    \* the local instruments
  role_codes,     \* the ..._code locals
  iterations,     \* the iterations of the loops completed
  pull_overrides, \* the overrides of the latest iteration
  pull_keys,      \* the keys built, in order
  data_calls,     \* the data requests issued
  data_log,       \* what each data request was answered with
  frames,         \* the local frames
  pull_result,    \* the rows of the table returned
  pull_error      \* the exception raised (NoError when none)

pullVars == <<pull_catalog, pull_template, ppc, roles, ref_areas, instruments,
              role_codes, iterations, pull_overrides, pull_keys, data_calls, data_log,
              frames, pull_result, pull_error>>

\* The retrying calls of the other clients: pull_bis._get_text_with_retry
\* (under _fetch_csv), pull_imf.fetch_data and Data360Client._get.
VARIABLES
  client,        \* "bis", "imf" or "wb": the code that runs
  retries,       \* the configured number of attempts
  tries,         \* the requests issued so far
  cpc,           \* "loop", "csv", "returned", "raised"
  attempt_log,   \* what each attempt met: "ok", "transport", "status", "format"
  attempt_errs,  \* the exception of each attempt (NoError for none)
  naps,          \* the sleeps taken, in units of the backoff
  last_err,      \* the local last_err / last_exc (NoError for None)
  payload_text,  \* the text handed to _fetch_csv
  client_result, \* what the call returned
  client_error,  \* the exception raised (NoError when none)
  client_cause   \* the exception the raised one carries in its message

clientVars == <<client, retries, tries, cpc, attempt_log, attempt_errs, naps,
                last_err, payload_text, client_result, client_error, client_cause>>

\* The structure parser _parse_structure_xml.
VARIABLES
  xml_doc,       \* the document handed to the parser
  parse_pc,      \* "call", "returned", "raised"
  parsed         \* what the parser returned: series_dims, obs_dims, dim_values

parseVars == <<xml_doc, parse_pc, parsed>>

\* The pagination Data360Client.iter_data.
VARIABLES
  server_total,  \* the number of records the server holds (its count)
  paginate,      \* the paginate argument
  initial_skip,  \* int(params.get("skip", 0) or 0)
  skip,          \* the local skip
  pages,         \* the pages received: the skip requested, records, count
  yielded,       \* the records yielded, in order
  ipc            \* "loop", "done", "raised"

pageVars == <<server_total, paginate, initial_skip, skip, pages, yielded, ipc>>

\* The year chunks of pull_currency_aggregates_all_investors.
VARIABLES
  start_year,    \* the argument start_year
  end_year,      \* the argument end_year
  year_chunks,   \* the local year_chunks: <<ys, ye>> pairs
  periods,       \* the <<startPeriod, endPeriod>> of the requests issued
  chpc           \* "default", "loop", "returned", "raised"

chunkVars == <<start_year, end_year, year_chunks, periods, chpc>>

\* The reference-area batches of _pull_domestic and _pull_international.
VARIABLES
  bis_pull,      \* "domestic" or "international": the function that runs
  bis_ref_areas, \* the local ref_areas: list(country_codes.values())
  batch_size,    \* BIS_REF_AREA_BATCH_SIZE
  batches,       \* the local batches
  batch_calls,   \* the batches of the data requests issued, in order
  bpc            \* "split", "loop", "returned", "raised"

batchVars == <<bis_pull, bis_ref_areas, batch_size, batches, batch_calls, bpc>>

vars == <<fetchVars, keyVars, structVars, decodeVars, findVars, pullVars, clientVars, parseVars, pageVars, chunkVars, batchVars>>

notFetch == <<keyVars, structVars, decodeVars, findVars, pullVars, clientVars, parseVars, pageVars, chunkVars, batchVars>>

notKey == <<fetchVars, structVars, decodeVars, findVars, pullVars, clientVars, parseVars, pageVars, chunkVars, batchVars>>

notStruct == <<fetchVars, keyVars, decodeVars, findVars, pullVars, clientVars, parseVars, pageVars, chunkVars, batchVars>>

notDecode == <<fetchVars, keyVars, structVars, findVars, pullVars, clientVars, parseVars, pageVars, chunkVars, batchVars>>

notFind == <<fetchVars, keyVars, structVars, decodeVars, pullVars, clientVars, parseVars, pageVars, chunkVars, batchVars>>

notPull == <<fetchVars, keyVars, structVars, decodeVars, findVars, clientVars, parseVars, pageVars, chunkVars, batchVars>>

notClient == <<fetchVars, keyVars, structVars, decodeVars, findVars, pullVars, parseVars, pageVars, chunkVars, batchVars>>

notParse == <<fetchVars, keyVars, structVars, decodeVars, findVars, pullVars, clientVars, pageVars, chunkVars, batchVars>>

notPage == <<fetchVars, keyVars, structVars, decodeVars, findVars, pullVars, clientVars, parseVars, chunkVars, batchVars>>

notChunk == <<fetchVars, keyVars, structVars, decodeVars, findVars, pullVars, clientVars, parseVars, pageVars, batchVars>>

notBatch == <<fetchVars, keyVars, structVars, decodeVars, findVars, pullVars, clientVars, parseVars, pageVars, chunkVars>>

\* response.headers.get("Retry-After"): None when the header is absent
NoHeader == [present |-> FALSE, text |-> <<>>]

Header(t) == [present |-> TRUE, text |-> t]

\* Values of the Retry-After header of a 429 answer: absent, empty, an
\* HTTP date, or seconds in decimal.
RetryAfterHeaders ==
  {NoHeader} \cup
  {Header(t) : t \in {<<>>, <<"W", "e", "d">>, <<"0">>, <<"3">>,
                      <<"1", "0">>, <<"1", "2">>}}

NoError == <<>>

\* the local variable response before the first assignment
NoResponse == [status |-> 0, retry_after |-> NoHeader, body |-> "unbound"]

\* The answers of the server.  body is "ok" when the body is of the expected
\* format and "html" when it is an HTML/error page.
Responses ==
  [status : {200}, retry_after : {NoHeader}, body : {"ok", "html"}]
  \cup [status : {401, 404, 500}, retry_after : {NoHeader}, body : {"html"}]
  \cup [status : {429}, retry_after : RetryAfterHeaders, body : {"html"}]

\* response.raise_for_status() raises requests.HTTPError
raise_for_status(r) == r.status >= 400 /\ r.status < 600

\* line 116 / 137: the anonymous fallback is taken
Use_fallback(r, auth) == r.status = 401 /\ auth

Retry_on_429_always(r, a, n) == r.status = 429

\* line 119 / 140: the rate-limit branch is taken
Retry_on_429(r, a, n) == r.status = 429 /\ a < n - 1

\* lines 120-122 / 141-143: the seconds slept after a 429
Wait_seconds(retry_after, a) ==
  LET truthy == retry_after.present /\ Len(retry_after.text) > 0
      raw == IF truthy /\ isdigit(retry_after.text)
             THEN int_digits(retry_after.text)
             ELSE 5 * Pow2(a)
  IN  Max(raw, 10)

\* lines 125-126 / 146-147 (and 127-128 / 148-149): the end of the call with
\* response r in hand: <<position, error>>
Finish(f, r) ==
  IF raise_for_status(r) THEN <<"raised", <<"HTTPError", r.status>>>>
  ELSE IF f = "json" /\ r.body # "ok" THEN <<"raised", <<"JSONDecodeError">>>>
  ELSE <<"returned", NoError>>

FetchInit ==
  /\ fn \in {"json", "text"}
  /\ session_auth \in BOOLEAN
  /\ max_retries \in 0..MaxRetries
  /\ attempt = 0
  /\ fpc = "loop"
  /\ response = NoResponse
  /\ session_gets = 0
  /\ fallback_gets = 0
  /\ slept = <<>>
  /\ fetch_error = NoError

FetchIdle ==
  /\ fn = "text"
  /\ session_auth = FALSE
  /\ max_retries = 0
  /\ attempt = 0
  /\ fpc = "idle"
  /\ response = NoResponse
  /\ session_gets = 0
  /\ fallback_gets = 0
  /\ slept = <<>>
  /\ fetch_error = NoError

\* line 115 / 136: session.get answers
SessionGet ==
  /\ fpc = "loop"
  /\ attempt < max_retries
  /\ session_gets' = session_gets + 1
  /\ \E r \in Responses :
       /\ response' = r
       /\ fpc' = IF Use_fallback(r, session_auth) THEN "fallback" ELSE "check429"
  /\ UNCHANGED <<fn, session_auth, max_retries, attempt, fallback_gets,
                 slept, fetch_error>>
  /\ UNCHANGED notFetch

\* line 115 / 136: session.get raises a transport error, which nothing catches
SessionGetFails ==
  /\ fpc = "loop"
  /\ attempt < max_retries
  /\ session_gets' = session_gets + 1
  /\ fpc' = "raised"
  /\ fetch_error' = <<"ConnectionError">>
  /\ UNCHANGED <<fn, session_auth, max_retries, attempt, response,
                 fallback_gets, slept>>
  /\ UNCHANGED notFetch

\* lines 117-118 / 138-139: the anonymous session answers
FallbackGet ==
  /\ fpc = "fallback"
  /\ fallback_gets' = fallback_gets + 1
  /\ \E r \in Responses : response' = r
  /\ fpc' = "check429"
  /\ UNCHANGED <<fn, session_auth, max_retries, attempt, session_gets,
                 slept, fetch_error>>
  /\ UNCHANGED notFetch

\* lines 117-118 / 138-139: the anonymous request raises a transport error
FallbackGetFails ==
  /\ fpc = "fallback"
  /\ fallback_gets' = fallback_gets + 1
  /\ fpc' = "raised"
  /\ fetch_error' = <<"ConnectionError">>
  /\ UNCHANGED <<fn, session_auth, max_retries, attempt, response,
                 session_gets, slept>>
  /\ UNCHANGED notFetch

\* lines 119-124 / 140-145: sleep and continue with the next attempt
Backoff ==
  /\ fpc = "check429"
  /\ Retry_on_429(response, attempt, max_retries)
  /\ slept' = Append(slept, Wait_seconds(response.retry_after, attempt))
  /\ attempt' = attempt + 1
  /\ fpc' = "loop"
  /\ UNCHANGED <<fn, session_auth, max_retries, response, session_gets,
                 fallback_gets, fetch_error>>
  /\ UNCHANGED notFetch

\* lines 125-126 / 146-147: raise the HTTP error or return the body
RaiseOrReturn ==
  /\ fpc = "check429"
  /\ ~Retry_on_429(response, attempt, max_retries)
  /\ fpc' = Finish(fn, response)[1]
  /\ fetch_error' = Finish(fn, response)[2]
  /\ UNCHANGED <<fn, session_auth, max_retries, attempt, response,
                 session_gets, fallback_gets, slept>>
  /\ UNCHANGED notFetch

\* lines 127-128 / 148-149: the loop ended without a return
AfterLoop ==
  /\ fpc = "loop"
  /\ attempt >= max_retries
  /\ IF response = NoResponse
     THEN fpc' = "raised" /\ fetch_error' = <<"UnboundLocalError">>
     ELSE fpc' = Finish(fn, response)[1] /\ fetch_error' = Finish(fn, response)[2]
  /\ UNCHANGED <<fn, session_auth, max_retries, attempt, response,
                 session_gets, fallback_gets, slept>>
  /\ UNCHANGED notFetch

FetchTerminated == fpc \in {"returned", "raised"}

FetchNext ==
  \/ SessionGet
  \/ SessionGetFails
  \/ FallbackGet
  \/ FallbackGetFails
  \/ Backoff
  \/ RaiseOrReturn
  \/ AfterLoop

(***************************************************************************)
(* The key builders.  A code is one symbol; "." delimits the segments of a *)
(* key and "+" joins the codes of a union.                                 *)
(***************************************************************************)
SeqsUpTo(S, n) == UNION {[1..k -> S] : k \in 0..n}

Range(s) == {s[i] : i \in 1..Len(s)}

IsInjective(s) == \A i, j \in 1..Len(s) : s[i] = s[j] => i = j

\* str.split(sep) for a one-symbol separator: the parts between the
\* separators (one part, the empty one, for the empty string)
RECURSIVE split(_, _)
split(s, sep) ==
  IF \A i \in 1..Len(s) : s[i] # sep THEN <<s>>
  ELSE LET i == CHOOSE i \in 1..Len(s) :
                  s[i] = sep /\ \A j \in 1..(i - 1) : s[j] # sep
       IN  <<SubSeq(s, 1, i - 1)>> \o split(SubSeq(s, i + 1, Len(s)), sep)

\* sep.join(parts)
RECURSIVE join(_, _)
join(parts, sep) ==
  IF Len(parts) = 0 THEN <<>>
  ELSE IF Len(parts) = 1 THEN parts[1]
  ELSE parts[1] \o <<sep>> \o join(Tail(parts), sep)

DimIds == {"FREQ", "REF_AREA", "SECTOR"}

Codes == {"A", "US", "CA"}

TemplateSymbols == {"A", "US", ".", "+"}

\* The values of an override dict: None, a string, or a list (a tuple behaves
\* like a list; a set is joined in its iteration order, which items gives).
NoneValue == [kind |-> "None", text |-> <<>>, items |-> <<>>]

StrValue(t) == [kind |-> "str", text |-> t, items |-> <<>>]

ListValue(l) == [kind |-> "list", text |-> <<>>, items |-> l]

OverrideValues ==
  {NoneValue, StrValue(<<>>), StrValue(<<"US">>), ListValue(<<>>),
   ListValue(<<<<"US">>, <<"CA">>>>), ListValue(<<<<"CA">>, <<"US">>>>)}

OverrideIds == {"FREQ", "REF_AREA"}

\* The dicts over OverrideIds, as <<key, value>> pairs in insertion order
OverrideMaps ==
  {d \in SeqsUpTo(OverrideIds \X OverrideValues, Cardinality(OverrideIds)) :
     IsInjective([i \in 1..Len(d) |-> d[i][1]])}

\* dict.get(k): the value stored under k, None when there is none
dict_get(d, k) ==
  IF \E i \in 1..Len(d) : d[i][1] = k
  THEN d[CHOOSE i \in 1..Len(d) : d[i][1] = k][2]
  ELSE NoneValue

\* dict.get(k, default)
dict_get_default(d, k, default) ==
  IF \E i \in 1..Len(d) : d[i][1] = k
  THEN d[CHOOSE i \in 1..Len(d) : d[i][1] = k][2]
  ELSE default

NoKey == <<>>

key_part_reversed(override_value, template_value) ==
  IF override_value.kind = "None" THEN template_value
  ELSE IF override_value.kind = "list"
  THEN join([i \in 1..Len(override_value.items) |->
               override_value.items[Len(override_value.items) + 1 - i]], "+")
  ELSE override_value.text

\* pull_oecd._build_key, lines 430-436: the segment of one dimension
key_part(override_value, template_value) ==
  IF override_value.kind = "None" THEN template_value
  ELSE IF override_value.kind = "list" THEN join(override_value.items, "+")
  ELSE override_value.text

\* zip(series_dims, template_parts) stops at the shorter of the two
zip_len(a, b) == IF Len(a) <= Len(b) THEN Len(a) ELSE Len(b)

template_mismatch_ignored(dims, template_parts) == FALSE

\* pull_oecd._build_key, line 424
template_mismatch(dims, template_parts) == Len(template_parts) # Len(dims)

key_parts_by_override(dims, template_parts, ovr) ==
  [i \in 1..Len(ovr) |-> key_part(ovr[i][2], <<>>)]
  \o [i \in 1..(zip_len(dims, template_parts) - Len(ovr)) |->
        template_parts[i]]

\* pull_oecd._build_key, lines 427-436: one part per zipped pair
key_parts(dims, template_parts, ovr) ==
  [i \in 1..zip_len(dims, template_parts) |->
     key_part(dict_get(ovr, dims[i]), template_parts[i])]

\* pull_oecd._build_key
_build_key(dims, template, ovr) ==
  LET template_parts == split(template, ".")
  IN  IF template_mismatch(dims, template_parts)
      THEN [kpc |-> "raised", key |-> NoKey, error |-> <<"ValueError">>]
      ELSE [kpc |-> "returned",
            key |-> join(key_parts(dims, template_parts, ovr), "."),
            error |-> NoError]

\* pull_bis._build_empty_defaults
_build_empty_defaults(dim_order) ==
  [i \in 1..Len(dim_order) |-> <<dim_order[i], StrValue(<<>>)>>]

\* pull_bis._build_key
bis_build_key(dim_order, ovr, defaults) ==
  LET value(dim) ==
        IF dict_get(ovr, dim).kind = "None"
        THEN dict_get_default(defaults, dim, StrValue(<<>>))
        ELSE dict_get(ovr, dim)
      part(v) == IF v.kind = "list" THEN join(v.items, "+") ELSE v.text
  IN  join([i \in 1..Len(dim_order) |-> part(value(dim_order[i]))], ".")

KeyIdle ==
  /\ impl = "oecd"
  /\ series_dims = <<>>
  /\ key_template = <<>>
  /\ overrides = <<>>
  /\ kpc = "idle"
  /\ key = <<>>
  /\ key_error = <<>>

KeyInit ==
  /\ series_dims \in {d \in SeqsUpTo(DimIds, MaxDims) : IsInjective(d)}
  /\ overrides \in OverrideMaps
  /\ \/ impl = "oecd" /\ key_template \in SeqsUpTo(TemplateSymbols, MaxTemplateLen)
     \/ impl = "bis" /\ key_template = <<>>
  /\ kpc = "call"
  /\ key = NoKey
  /\ key_error = NoError

\* one call of pull_oecd._build_key
BuildKey ==
  /\ kpc = "call"
  /\ impl = "oecd"
  /\ LET r == _build_key(series_dims, key_template, overrides)
     IN  kpc' = r.kpc /\ key' = r.key /\ key_error' = r.error
  /\ UNCHANGED <<impl, series_dims, key_template, overrides>>
  /\ UNCHANGED notKey

\* one call of pull_bis._build_key, with the defaults of its callers
BisBuildKey ==
  /\ kpc = "call"
  /\ impl = "bis"
  /\ kpc' = "returned"
  /\ key' = bis_build_key(series_dims, overrides,
                          _build_empty_defaults(series_dims))
  /\ key_error' = NoError
  /\ UNCHANGED <<impl, series_dims, key_template, overrides>>
  /\ UNCHANGED notKey

KeyNext ==
  \/ BuildKey
  \/ BisBuildKey

(***************************************************************************)
(* fetch_structure.  A structure document is known by the dataflow it      *)
(* describes and its revision; an HTML/error page is a document that is no *)
(* XML.  The catalog parsed from a document is what _parse_structure_xml   *)
(* returns for it.  _get_text_with_retry is taken by its outcome: the text *)
(* returned, or the exception raised.                                      *)
(***************************************************************************)
\* "OECD.SDD.NAD,DSD_NASEC20@DF_T720R_A,1.1": the reference names a DSD
FlowWithDsd ==
  <<"OECD.SDD.NAD", ",", "DSD_NASEC20", "@", "DF_T720R_A", ",", "1.1">>

\* "OECD.SDD.TPS,DF_BOP,1.0": another dataflow; three parts, no DSD id
FlowWithoutDsd == <<"OECD.SDD.TPS", ",", "DF_BOP", ",", "1.0">>

\* "DF_EO": another dataflow; not three parts
FlowBare == <<"DF_EO">>

FlowRefs == {FlowWithDsd, FlowWithoutDsd, FlowBare}

RefreshValues == {"0", "True"}

\* str(value).strip().lower()
strip_lower(v) == IF v = "True" THEN "true" ELSE v

\* _is_truthy
_is_truthy(value) == strip_lower(value) \in {"1", "true", "yes", "y"}

\* _parse_flow_ref: the dsd_id of the reference, <<>> for None (also when
\* the function returns None)
dsd_id_of(ref) ==
  LET parts == split(ref, ",")
  IN  IF Len(parts) # 3 THEN <<>>
      ELSE IF "@" \in Range(parts[2]) THEN split(parts[2], "@")[1]
      ELSE <<>>

\* line 295: flow_parts and flow_parts.get("dsd_id")
has_dsd_id(ref) == dsd_id_of(ref) # <<>>

NoFile == [flow |-> <<>>, rev |-> 0, xml |-> FALSE]

\* an HTML/error page that is no well-formed XML
HtmlPage == [flow |-> <<>>, rev |-> 1, xml |-> FALSE]

\* an HTML/error page that is well-formed XML (XHTML): ET.fromstring reads
\* it, and it declares no codelist and no dimension
XhtmlPage == [flow |-> <<>>, rev |-> 1, xml |-> TRUE]

\* the documents the server may send for the structure of dataflow f
Documents(f) ==
  {[flow |-> f, rev |-> r, xml |-> TRUE] : r \in {1, 2}} \cup {HtmlPage, XhtmlPage}

NoCatalog == [flow |-> <<>>, rev |-> 0]

\* _parse_structure_xml: the catalog of a document; ET.fromstring raises a
\* ParseError for a text that is no XML
parses(doc) == doc.xml

_parse_structure_xml(doc) == [flow |-> doc.flow, rev |-> doc.rev]

\* the outcomes of one call of _get_text_with_retry for dataflow f
FetchOutcomes(f) ==
  {[kind |-> "text", doc |-> d, status |-> 200] : d \in Documents(f)}
  \cup {[kind |-> "HTTPError", doc |-> NoFile, status |-> st] : st \in {404, 500}}
  \cup {[kind |-> "ConnectionError", doc |-> NoFile, status |-> 0]}

\* lines 299-305: 2 agencies x 2 versions x 3 URL shapes
DsdCandidates == 12

\* _parse_flow_ref: agency_id and version of a reference of three parts
flow_agency(ref) == split(ref, ",")[1]

flow_version(ref) == split(ref, ",")[3]

\* lines 302-304: _datastructure_url_from_ref, _datastructure_url_from_ref_slash
\* with and without the version
UrlShapes == <<"ref", "slash", "slash_no_version">>

dsd_url_version_major(ref, n) ==
  [agency |-> <<flow_agency(ref), <<"OECD">>>>[(((n - 1) \div 3) % 2) + 1],
   version |-> IF (n - 1) % 3 = 2 THEN <<>>
               ELSE <<flow_version(ref), <<"latest">>>>[((n - 1) \div 6) + 1],
   shape |-> UrlShapes[((n - 1) % 3) + 1]]

\* lines 297-305: the n-th URL of the loops over agencies, versions and urls
dsd_url(ref, n) ==
  [agency |-> <<flow_agency(ref), <<"OECD">>>>[((n - 1) \div 6) + 1],
   version |-> IF (n - 1) % 3 = 2 THEN <<>>
               ELSE <<flow_version(ref), <<"latest">>>>[(((n - 1) \div 3) % 2) + 1],
   shape |-> UrlShapes[((n - 1) % 3) + 1]]

\* lines 348-363: the n-th URL of the DSD found in the dataflow list
ref_url(ref, n) ==
  [agency |-> <<"dsd_ref">>,
   version |-> IF n = 3 THEN <<>> ELSE <<"dsd_ref">>,
   shape |-> UrlShapes[n]]

\* line 327: _structure_url(flow_ref)
structure_url(ref) == [agency |-> <<>>, version |-> <<>>, shape |-> "structure"]

\* line 337: _dataflow_list_url()
dataflow_list_url == [agency |-> <<>>, version |-> <<>>, shape |-> "dataflow"]

NoTrail == [entry_cache |-> [flow |-> <<>>, rev |-> 0, xml |-> FALSE],
            requests |-> <<>>]

\* the request of url answered with outcome o, added to the trail
Requested(url, o) ==
  [trail EXCEPT !.requests = Append(@, [url |-> url, status |-> o.status])]

\* lines 348-363
RefCandidates == 3

NoCall == [flow_ref |-> <<>>, refresh |-> "0", spc |-> "idle", net_calls |-> 0,
           catalog |-> NoCatalog]

StructInit ==
  /\ cache = NoFile
  /\ calls = 0
  /\ flow_ref = <<>>
  /\ refresh = "0"
  /\ spc = "idle"
  /\ cand = 0
  /\ net_calls = 0
  /\ catalog = NoCatalog
  /\ struct_error = NoError
  /\ prev = NoCall
  /\ trail = NoTrail

StructDone == spc \in {"returned", "raised"}

\* the end of the call with text doc in hand: return _parse_structure_xml(doc)
ParseAndReturn(doc) ==
  IF parses(doc)
  THEN /\ spc' = "returned"
       /\ catalog' = _parse_structure_xml(doc)
       /\ struct_error' = NoError
  ELSE /\ spc' = "raised"
       /\ catalog' = NoCatalog
       /\ struct_error' = <<"ParseError">>

Raise(e) ==
  /\ spc' = "raised"
  /\ catalog' = NoCatalog
  /\ struct_error' = e

\* a caller calls fetch_structure(flow_ref, session)
BeginCall ==
  /\ spc = "idle" \/ StructDone
  /\ calls < MaxCalls
  /\ calls' = calls + 1
  /\ prev' = [flow_ref |-> flow_ref, refresh |-> refresh, spc |-> spc,
              net_calls |-> net_calls, catalog |-> catalog]
  /\ flow_ref' \in FlowRefs
  /\ refresh' \in RefreshValues
  /\ spc' = "entry"
  /\ cand' = 0
  /\ net_calls' = 0
  /\ catalog' = NoCatalog
  /\ struct_error' = NoError
  /\ trail' = [entry_cache |-> cache, requests |-> <<>>]
  /\ UNCHANGED cache
  /\ UNCHANGED notStruct

\* line 290: the cache file is read instead of the network
cache_is_used(c, r, f) == c # NoFile /\ ~_is_truthy(r)

\* lines 289-292: return the catalog of the cache file
ReadCache ==
  /\ spc = "entry"
  /\ cache_is_used(cache, refresh, flow_ref)
  /\ ParseAndReturn(cache)
  /\ UNCHANGED <<cache, calls, flow_ref, refresh, cand, net_calls, prev, trail>>
  /\ UNCHANGED notStruct

\* lines 294-298: choose the resolution path
Resolve ==
  /\ spc = "entry"
  /\ ~cache_is_used(cache, refresh, flow_ref)
  /\ spc' = IF has_dsd_id(flow_ref) THEN "dsd_loop" ELSE "direct"
  /\ cand' = 1
  /\ UNCHANGED <<cache, calls, flow_ref, refresh, net_calls, catalog,
                 struct_error, prev, trail>>
  /\ UNCHANGED notStruct

\* one candidate URL of a loop of n candidates (lines 306-322, 365-381)
TryCandidate(n, url) ==
  /\ net_calls' = net_calls + 1
  /\ \E o \in FetchOutcomes(flow_ref) :
     /\ trail' = Requested(url, o)
     /\
       \/ /\ o.kind = "text"
          /\ cache' = o.doc
          /\ ParseAndReturn(o.doc)
          /\ UNCHANGED cand
       \/ /\ o.kind = "HTTPError"
          /\ o.status = 404
          /\ UNCHANGED cache
          /\ IF cand < n
             THEN /\ cand' = cand + 1
                  /\ UNCHANGED <<spc, catalog, struct_error>>
             ELSE /\ Raise(<<"HTTPError", 404>>)
                  /\ UNCHANGED cand
       \/ /\ o.kind = "HTTPError"
          /\ o.status # 404
          /\ Raise(<<"HTTPError", o.status>>)
          /\ UNCHANGED <<cache, cand>>
       \/ /\ o.kind = "ConnectionError"
          /\ Raise(<<"ConnectionError">>)
          /\ UNCHANGED <<cache, cand>>
  /\ UNCHANGED <<calls, flow_ref, refresh, prev>>
  /\ UNCHANGED notStruct

\* lines 299-322: one candidate URL of the DSD named by the reference
DsdCandidate ==
  /\ spc = "dsd_loop"
  /\ TryCandidate(DsdCandidates, dsd_url(flow_ref, cand))

\* lines 324-333: the structure URL of the flow reference itself
DirectFetch ==
  /\ spc = "direct"
  /\ net_calls' = net_calls + 1
  /\ \E o \in FetchOutcomes(flow_ref) :
     /\ trail' = Requested(structure_url(flow_ref), o)
     /\
       \/ /\ o.kind = "text"
          /\ ParseAndReturn(o.doc)
       \/ /\ o.kind = "HTTPError"
          /\ o.status = 404
          /\ spc' = "dataflow"
          /\ UNCHANGED <<catalog, struct_error>>
       \/ /\ o.kind = "HTTPError"
          /\ o.status # 404
          /\ Raise(<<"HTTPError", o.status>>)
       \/ /\ o.kind = "ConnectionError"
          /\ Raise(<<"ConnectionError">>)
  /\ UNCHANGED <<cache, calls, flow_ref, refresh, cand, prev>>
  /\ UNCHANGED notStruct

\* lines 335-346: the dataflow list, and the DSD reference found in it
DataflowList ==
  /\ spc = "dataflow"
  /\ net_calls' = net_calls + 1
  /\ \E o \in FetchOutcomes(flow_ref) :
     /\ trail' = Requested(dataflow_list_url, o)
     /\
       \/ /\ o.kind = "text"
          /\ parses(o.doc)
          /\ \E resolved \in BOOLEAN :
               IF resolved
               THEN /\ spc' = "ref_loop"
                    /\ UNCHANGED <<catalog, struct_error>>
               ELSE Raise(<<"ValueError">>)
       \/ /\ o.kind = "text"
          /\ ~parses(o.doc)
          /\ Raise(<<"ParseError">>)
       \/ /\ o.kind = "HTTPError"
          /\ Raise(<<"HTTPError", o.status>>)
       \/ /\ o.kind = "ConnectionError"
          /\ Raise(<<"ConnectionError">>)
  /\ cand' = 1
  /\ UNCHANGED <<cache, calls, flow_ref, refresh, prev>>
  /\ UNCHANGED notStruct

\* lines 348-381: one candidate URL of the DSD found in the dataflow list
RefCandidate ==
  /\ spc = "ref_loop"
  /\ TryCandidate(RefCandidates, ref_url(flow_ref, cand))

StructNext ==
  \/ BeginCall
  \/ ReadCache
  \/ Resolve
  \/ DsdCandidate
  \/ DirectFetch
  \/ DataflowList
  \/ RefCandidate

(***************************************************************************)
(* The observation decoder.  A key of the observation map is a text such   *)
(* as "0:1": integer literals joined by ":".  A row is the dict built for  *)
(* one entry: its cells in insertion order, one cell for the two columns   *)
(* <name> and <name>_label of a dimension, and the value column.           *)
(***************************************************************************)
PyNone == "None"

\* str(i) for a small integer
str_int(i) ==
  CASE i = -1 -> <<"-", "1">> [] i = 0 -> <<"0">> [] i = 1 -> <<"1">>
    [] i = 2 -> <<"2">> [] i = 3 -> <<"3">>

\* int(s) succeeds: an optional sign and digits
is_int_literal(s) ==
  \/ isdigit(s)
  \/ Len(s) > 1 /\ s[1] = "-" /\ isdigit(Tail(s))

\* int(s)
int_of(s) == IF s[1] = "-" THEN 0 - int_digits(Tail(s)) ELSE int_digits(s)

\* The observation dimensions a payload may declare, with their values
DimPool == <<"FREQ", "SECTOR", "INSTITUTIONAL_SECTOR", "MEASURE">>

PayloadValues(dim_id) ==
  CASE dim_id = "FREQ" ->
         <<[id |-> "A", name |-> "Annual"], [id |-> "Q", name |-> "Quarterly"]>>
    [] dim_id = "SECTOR" ->
         <<[id |-> "S13", name |-> "General government"]>>
    [] dim_id = "INSTITUTIONAL_SECTOR" ->
         <<[id |-> "S1", name |-> "Total economy"],
           [id |-> "S13", name |-> "General government"]>>
    [] dim_id = "MEASURE" -> <<>>

PayloadDims ==
  {[i \in 1..n |-> [id |-> DimPool[from + i - 1],
                    values |-> PayloadValues(DimPool[from + i - 1])]] :
     <<from, n>> \in {w \in (1..Len(DimPool)) \X (0..MaxObsDims) :
                        w[1] + w[2] - 1 <= Len(DimPool)}}

Indices == {-1, 0, 1}

\* the keys of the observation map: one or more indices joined by ":"
ObservationKeys ==
  {join([i \in 1..Len(t) |-> str_int(t[i])], ":") :
     t \in SeqsUpTo(Indices, MaxObsDims) \ {<<>>}}

\* an observation: a scalar, or a list (value first)
Scalar(v) == [is_list |-> FALSE, items |-> <<v>>]

ObservationValues ==
  {Scalar(7), [is_list |-> TRUE, items |-> <<7, 0>>],
   [is_list |-> TRUE, items |-> <<>>]}

\* str.lower() of a dimension id
lower(dim_id) ==
  CASE dim_id = "FREQ" -> "freq"
    [] dim_id = "SECTOR" -> "sector"
    [] dim_id = "INSTITUTIONAL_SECTOR" -> "institutional_sector"
    [] dim_id = "MEASURE" -> "measure"

\* pull_oecd_table_0720, lines 721-748, for the dimensions of DimPool
PullRename ==
  <<<<"FREQ", "frequency">>,
    <<"INSTITUTIONAL_SECTOR", "institutional_sector">>,
    <<"SECTOR", "institutional_sector">>>>

\* lines 398-403: the values of a dimension of the payload, [] for an
\* unknown dimension
dim_values_get(dims, dim_id) ==
  IF \E i \in 1..Len(dims) : dims[i].id = dim_id
  THEN LET i == CHOOSE i \in 1..Len(dims) :
                  dims[i].id = dim_id
                  /\ \A j \in (i + 1)..Len(dims) : dims[j].id # dim_id
       IN  [k \in 1..Len(dims[i].values) |->
              [code |-> dims[i].values[k].id, label |-> dims[i].values[k].name]]
  ELSE <<>>

\* _index_to_code: None, or the (code, label) pair at the index
_index_to_code(dims, dim_id, index) ==
  LET values == dim_values_get(dims, dim_id)
  IN  IF index < 0 \/ index >= Len(values)
      THEN [is_none |-> TRUE, code |-> PyNone, label |-> PyNone]
      ELSE [is_none |-> FALSE, code |-> values[index + 1].code,
            label |-> values[index + 1].label]

\* row[output_name] = code; row[output_name + "_label"] = label
row_set(cells, name, code, label) ==
  IF \E i \in 1..Len(cells) : cells[i].name = name
  THEN [i \in 1..Len(cells) |->
          IF cells[i].name = name
          THEN [name |-> name, code |-> code, label |-> label]
          ELSE cells[i]]
  ELSE Append(cells, [name |-> name, code |-> code, label |-> label])

\* lines 411-415: the cells of a row from position i on; unpacking the None
\* of _index_to_code raises a TypeError
RECURSIVE decode_cells(_, _, _, _, _)
decode_cells(dims, rename, indices, i, cells) ==
  IF i > zip_len(dims, indices)
  THEN [raised |-> FALSE, cells |-> cells]
  ELSE LET r == _index_to_code(dims, dims[i].id, indices[i])
           output_name == dict_get_default(rename, dims[i].id, lower(dims[i].id))
       IN  IF r.is_none
           THEN [raised |-> TRUE, cells |-> cells]
           ELSE decode_cells(dims, rename, indices, i + 1,
                             row_set(cells, output_name, r.code, r.label))

\* line 416: obs[0] if isinstance(obs, list) and obs else obs
row_value(obs) ==
  IF obs.is_list /\ obs.items # <<>> THEN Scalar(obs.items[1]) ELSE obs

NoEntry == [key |-> <<>>, obs |-> Scalar(0)]

\* lines 409-415: the dimension cells of the row of a key
decode_key(dims, rename, k) ==
  LET parts == split(k, ":")
  IN  IF \E i \in 1..Len(parts) : ~is_int_literal(parts[i])
      THEN [error |-> <<"ValueError">>, cells |-> <<>>]
      ELSE LET indices == [i \in 1..Len(parts) |-> int_of(parts[i])]
               r == decode_cells(dims, rename, indices, 1, <<>>)
           IN  IF r.raised
               THEN [error |-> <<"TypeError">>, cells |-> <<>>]
               ELSE [error |-> NoError, cells |-> r.cells]

DecodeIdle ==
  /\ obs_dims = <<>>
  /\ dim_rename = <<>>
  /\ entries = 0
  /\ entry = NoEntry
  /\ rows = <<>>
  /\ dpc = "idle"
  /\ decode_error = NoError

DecodeInit ==
  /\ obs_dims \in PayloadDims
  /\ dim_rename \in {<<>>, PullRename}
  /\ entries = 0
  /\ entry = NoEntry
  /\ rows = <<>>
  /\ dpc = "loop"
  /\ decode_error = NoError

\* lines 408-417: one iteration of the loop over observations.items()
DecodeEntry ==
  /\ dpc = "loop"
  /\ entries < MaxObs
  /\ \E k \in ObservationKeys :
       LET r == decode_key(obs_dims, dim_rename, k)
       IN  \E obs \in ObservationValues :
           /\ entries' = entries + 1
           /\ entry' = [key |-> k, obs |-> obs]
           /\ IF r.error = NoError
              THEN /\ rows' = Append(rows, [cells |-> r.cells,
                                            value |-> row_value(obs)])
                   /\ UNCHANGED <<dpc, decode_error>>
              ELSE /\ dpc' = "raised"
                   /\ decode_error' = r.error
                   /\ UNCHANGED rows
  /\ UNCHANGED <<obs_dims, dim_rename>>
  /\ UNCHANGED notDecode

\* line 419: the map is exhausted; return pd.DataFrame(rows)
DecodeReturn ==
  /\ dpc = "loop"
  /\ dpc' = "returned"
  /\ UNCHANGED <<obs_dims, dim_rename, entries, entry, rows, decode_error>>
  /\ UNCHANGED notDecode

DecodeNext ==
  \/ DecodeEntry
  \/ DecodeReturn

(***************************************************************************)
(* The code lookup _find_code_by_label.  Codes, labels and patterns are    *)
(* texts: sequences of characters.                                         *)
(***************************************************************************)
char_lower(c) == CASE c = "A" -> "a" [] c = "B" -> "b" [] OTHER -> c

char_upper(c) == CASE c = "a" -> "A" [] c = "b" -> "B" [] OTHER -> c

\* str.lower()
str_lower(s) == [i \in 1..Len(s) |-> char_lower(s[i])]

\* str.upper()
str_upper(s) == [i \in 1..Len(s) |-> char_upper(s[i])]

\* str.replace(old, new) for one-character texts
str_replace(s, old, new) == [i \in 1..Len(s) |-> IF s[i] = old THEN new ELSE s[i]]

NonEmptyText(t) == t # <<>>

\* str.split() without a separator: the runs of non-blank characters
whitespace_split(s) == SelectSeq(split(s, " "), NonEmptyText)

\* _normalize_label
_normalize_label(text) ==
  IF text = <<>> THEN <<>>
  ELSE join(whitespace_split(str_replace(str_lower(text), "-", " ")), " ")

\* sub in s
contains(sub, s) ==
  \E i \in 1..(Len(s) - Len(sub) + 1) : SubSeq(s, i, i + Len(sub) - 1) = sub

pattern_hit_allows_empty(pattern, code, label) ==
  contains(pattern, label) \/ pattern = str_lower(code)

\* line 477: pattern and (pattern in label or pattern == str(code).lower())
pattern_hit(pattern, code, label) ==
  /\ pattern # <<>>
  /\ (contains(pattern, label) \/ pattern = str_lower(code))

preferred_hit_case_sensitive(code, preferred) ==
  code \in Range(preferred)

\* lines 467, 469: value.get("code", "").upper() in preferred_set
preferred_hit(code, preferred) ==
  str_upper(code) \in {str_upper(c) : c \in Range(preferred)}

\* lines 468-470: the index of the first value with a preferred code, from
\* position i on; 0 when the loop ends without a return
RECURSIVE preferred_scan(_, _, _)
preferred_scan(vals, preferred, i) ==
  IF i > Len(vals) THEN 0
  ELSE IF preferred_hit(vals[i].code, preferred) THEN i
  ELSE preferred_scan(vals, preferred, i + 1)

\* lines 476-478: the inner loop over the normalized patterns
RECURSIVE pattern_scan(_, _, _, _)
pattern_scan(normalized_patterns, code, label, j) ==
  IF j > Len(normalized_patterns) THEN FALSE
  ELSE IF pattern_hit(normalized_patterns[j], code, label) THEN TRUE
  ELSE pattern_scan(normalized_patterns, code, label, j + 1)

\* lines 473-478: the index of the first value a pattern hits, from position
\* i on; 0 when the loop ends without a return
RECURSIVE label_scan(_, _, _)
label_scan(vals, normalized_patterns, i) ==
  IF i > Len(vals) THEN 0
  ELSE IF pattern_scan(normalized_patterns, vals[i].code,
                       _normalize_label(vals[i].label), 1)
       THEN i
  ELSE label_scan(vals, normalized_patterns, i + 1)

SampleSize == 5

sample_of_all(vals) ==
  join([i \in 1..Len(vals) |-> vals[i].code \o <<":">> \o vals[i].label], ", ")

\* lines 483-485: ", ".join(f"{code}:{label}" for value in values[:5])
sample_of(vals) ==
  LET head == SubSeq(vals, 1, IF Len(vals) < SampleSize THEN Len(vals) ELSE SampleSize)
  IN  join([i \in 1..Len(head) |-> head[i].code \o <<":">> \o head[i].label], ", ")

NoCode == [is_none |-> TRUE, code |-> <<>>]

FoundCode(c) == [is_none |-> FALSE, code |-> c]

\* _find_code_by_label: what the call returns or raises
_find_code_by_label(vals, pats, preferred, missing_ok) ==
  IF vals = <<>>
  THEN IF missing_ok
       THEN [pc |-> "returned", result |-> NoCode, error |-> NoError]
       ELSE [pc |-> "raised", result |-> NoCode,
             error |-> <<"ValueError", "not found or empty", <<>>>>]
  ELSE LET p == IF preferred # <<>> THEN preferred_scan(vals, preferred, 1) ELSE 0
           normalized_patterns == [j \in 1..Len(pats) |-> _normalize_label(pats[j])]
           l == label_scan(vals, normalized_patterns, 1)
       IN  IF p # 0
           THEN [pc |-> "returned", result |-> FoundCode(vals[p].code), error |-> NoError]
           ELSE IF l # 0
           THEN [pc |-> "returned", result |-> FoundCode(vals[l].code), error |-> NoError]
           ELSE IF missing_ok
           THEN [pc |-> "returned", result |-> NoCode, error |-> NoError]
           ELSE [pc |-> "raised", result |-> NoCode,
                 error |-> <<"ValueError", "Unable to match", sample_of(vals)>>]

FindCodes == {<<"A">>, <<"b">>, <<"A", "-", "b">>}

FindLabels == {<<>>, <<"A", "-", " ", "b">>, <<"b">>, <<"a">>}

FindValues == [code : FindCodes, label : FindLabels]

\* a dimension with more values than the sample of the error message holds
LongDimension ==
  [i \in 1..(SampleSize + 1) |->
     IF i % 2 = 1 THEN [code |-> <<"A">>, label |-> <<"a">>]
     ELSE [code |-> <<"b">>, label |-> <<"b">>]]

FindDimensions == SeqsUpTo(FindValues, MaxValues) \cup {LongDimension}

PatternLists ==
  {<<>>, <<<<>>>>, <<<<" ">>>>, <<<<"a", " ", "b">>>>, <<<<"A", "-", "b">>>>,
   <<<<"a">>>>, <<<<"b">>>>, <<<<"a">>, <<"b">>>>, <<<<"b">>, <<"a">>>>,
   <<<<>>, <<"b">>>>, <<<<"a", "-", "b">>>>, <<<<"-">>>>}

PreferredLists == {<<>>, <<<<"a">>>>, <<<<"B">>, <<"a", "-", "B">>>>}

FindIdle ==
  /\ find_values = <<>>
  /\ patterns = <<>>
  /\ preferred_codes = <<>>
  /\ allow_missing = FALSE
  /\ find_pc = "idle"
  /\ find_result = NoCode
  /\ find_error = NoError

FindInit ==
  /\ find_values \in FindDimensions
  /\ patterns \in PatternLists
  /\ preferred_codes \in PreferredLists
  /\ allow_missing \in BOOLEAN
  /\ find_pc = "call"
  /\ find_result = NoCode
  /\ find_error = NoError

\* one call of _find_code_by_label
FindCode ==
  /\ find_pc = "call"
  /\ LET r == _find_code_by_label(find_values, patterns, preferred_codes, allow_missing)
     IN  /\ find_pc' = r.pc
         /\ find_result' = r.result
         /\ find_error' = r.error
  /\ UNCHANGED <<find_values, patterns, preferred_codes, allow_missing>>
  /\ UNCHANGED notFind

FindNext == FindCode

(***************************************************************************)
(* pull_oecd_table_0720.  The catalog is what fetch_structure returned:    *)
(* the dimensions in declared order, each with its values (series_dims;    *)
(* dim_values is the same data by dimension id).  Of the eighteen roles    *)
(* the two required ones and three optional ones are carried: one whose    *)
(* code must match (freq), one with two candidate ids (sector) and one     *)
(* with allow_missing (currency_denom); the others repeat these shapes.    *)
(* The target lists are the first entries of the source's lists.           *)
(***************************************************************************)
TARGET_INSTRUMENTS == <<<<"F2">>, <<"F3">>>>

INSTRUMENT_ALIASES == <<<<<<"LF3SLINK">>, <<"F3">>>>, <<<<"LF5LINC">>, <<"F5">>>>>>

TARGET_REFERENCE_AREAS == <<<<"CAN">>, <<"USA">>>>

CatalogValue(c, l) == [code |-> <<c>>, label |-> l]

\* the dimensions a structure document may declare
CatalogPool ==
  {[id |-> "REF_AREA", values |-> <<CatalogValue("CAN", <<"canada">>),
                                    CatalogValue("USA", <<"united", " ", "states">>)>>],
   [id |-> "REF_AREA", values |-> <<CatalogValue("ZZZ", <<"nowhere">>)>>],
   [id |-> "LOCATION", values |-> <<CatalogValue("USA", <<"united", " ", "states">>)>>],
   [id |-> "INSTR_ASSET", values |-> <<CatalogValue("F2", <<"deposits">>),
                                       CatalogValue("F3", <<"debt", " ", "securities">>)>>],
   [id |-> "INSTR_ASSET", values |-> <<CatalogValue("F2", <<"deposits">>)>>],
   [id |-> "FREQ", values |-> <<CatalogValue("A", <<"annual">>)>>],
   [id |-> "FREQ", values |-> <<CatalogValue("Q", <<"quarterly">>)>>],
   [id |-> "SECTOR", values |-> <<CatalogValue("S13", <<"general", " ", "government">>)>>],
   [id |-> "INSTITUTIONAL_SECTOR",
    values |-> <<CatalogValue("S1", <<"total", " ", "economy">>),
                 CatalogValue("S13", <<"general", " ", "government">>)>>],
   [id |-> "CURRENCY_DENOM", values |-> <<CatalogValue("_T", <<"all", " ", "currencies">>)>>],
   [id |-> "CURRENCY", values |-> <<CatalogValue("USD", <<"us", " ", "dollar">>)>>]}

Catalogs ==
  {c \in SeqsUpTo(CatalogPool, MaxCatalogDims) :
     IsInjective([i \in 1..Len(c) |-> c[i].id])}

TemplateTokens == <<"t1", "t2", "t3", "t4", "t5">>

\* the key template of the base URL: one token per part
TemplateOf(n) == join([i \in 1..n |-> <<TemplateTokens[i]>>], ".")

\* candidate in dim_values
in_dim_values(dims, dim_id) == \E i \in 1..Len(dims) : dims[i].id = dim_id

\* dim_values[dim_id]
dim_values_of(dims, dim_id) ==
  dims[CHOOSE i \in 1..Len(dims) :
            dims[i].id = dim_id
            /\ \A j \in (i + 1)..Len(dims) : dims[j].id # dim_id].values

resolve_last_candidate(dims, candidates) ==
  IF \E i \in 1..Len(candidates) : in_dim_values(dims, candidates[i])
  THEN candidates[CHOOSE i \in 1..Len(candidates) :
                    in_dim_values(dims, candidates[i])
                    /\ \A j \in (i + 1)..Len(candidates) :
                         ~in_dim_values(dims, candidates[j])]
  ELSE PyNone

\* _resolve_dim_id
RECURSIVE _resolve_dim_id(_, _)
_resolve_dim_id(dims, candidates) ==
  IF candidates = <<>> THEN PyNone
  ELSE IF in_dim_values(dims, candidates[1]) THEN candidates[1]
  ELSE _resolve_dim_id(dims, Tail(candidates))

\* lines 504-521, for the roles carried
resolve_roles(dims) ==
  [ref_area_dim |-> _resolve_dim_id(dims, <<"REF_AREA", "REFERENCE_AREA", "LOCATION">>),
   instrument_dim |-> _resolve_dim_id(dims,
                        <<"INSTR_ASSET", "FINANCIAL_INSTRUMENT", "INSTRUMENT">>),
   freq_dim |-> _resolve_dim_id(dims, <<"FREQ", "FREQUENCY">>),
   sector_dim |-> _resolve_dim_id(dims, <<"SECTOR", "INSTITUTIONAL_SECTOR">>),
   currency_denom_dim |-> _resolve_dim_id(dims, <<"CURRENCY_DENOM", "CURRENCY">>)]

NoRoles ==
  [ref_area_dim |-> PyNone, instrument_dim |-> PyNone, freq_dim |-> PyNone,
   sector_dim |-> PyNone, currency_denom_dim |-> PyNone]

required_roles_unchecked(r) == FALSE

\* line 523: not ref_area_dim or not instrument_dim
required_role_missing(r) == r.ref_area_dim = PyNone \/ r.instrument_dim = PyNone

\* {v["code"] for v in dim_values[dim]}
available_codes(dims, dim_id) ==
  {v.code : v \in Range(dim_values_of(dims, dim_id))}

\* lines 528-530
resolve_ref_areas(dims, ref_area_dim) ==
  LET available(code) == code \in available_codes(dims, ref_area_dim)
  IN  SelectSeq(TARGET_REFERENCE_AREAS, available)

\* lines 536-547: the instruments found and the ones missing
RECURSIVE resolve_instruments(_, _, _)
resolve_instruments(dims, instrument_dim, targets) ==
  IF targets = <<>> THEN [instruments |-> <<>>, missing |-> <<>>]
  ELSE LET code == targets[1]
           alias == dict_get_default(INSTRUMENT_ALIASES, code, <<>>)
           rest == resolve_instruments(dims, instrument_dim, Tail(targets))
       IN  IF code \in available_codes(dims, instrument_dim)
           THEN [instruments |-> <<code>> \o rest.instruments, missing |-> rest.missing]
           ELSE IF alias # <<>> /\ alias \in available_codes(dims, instrument_dim)
           THEN [instruments |-> <<alias>> \o rest.instruments, missing |-> rest.missing]
           ELSE [instruments |-> rest.instruments, missing |-> <<code>> \o rest.missing]

\* lines 555-700: _find_code_by_label(...) if dim else None
role_code(dims, dim_id, pats, preferred, missing_ok) ==
  IF dim_id = PyNone
  THEN [pc |-> "returned", result |-> NoCode, error |-> NoError]
  ELSE _find_code_by_label(dim_values_of(dims, dim_id), pats, preferred, missing_ok)

NoRoleCodes == [freq_code |-> NoCode, sector_code |-> NoCode,
                currency_denom_code |-> NoCode]

\* dict[k] = v
dict_set(d, k, v) ==
  IF \E i \in 1..Len(d) : d[i][1] = k
  THEN [i \in 1..Len(d) |-> IF d[i][1] = k THEN <<k, v>> ELSE d[i]]
  ELSE Append(d, <<k, v>>)

override_set_always(d, dim_id, found) ==
  dict_set(d, dim_id, StrValue(found.code))

\* lines 759-760 and the like: if dim and code: overrides[dim] = code
override_set(d, dim_id, found) ==
  IF dim_id # PyNone /\ ~found.is_none /\ found.code # <<>>
  THEN dict_set(d, dim_id, StrValue(found.code))
  ELSE d

\* lines 755-787: the overrides of one iteration
build_overrides(r, codes, ref_area, instrument) ==
  override_set(
    override_set(
      override_set(
        dict_set(dict_set(<<>>, r.ref_area_dim, StrValue(ref_area)),
                 r.instrument_dim, StrValue(instrument)),
        r.freq_dim, codes.freq_code),
      r.sector_dim, codes.sector_code),
    r.currency_denom_dim, codes.currency_denom_code)

\* lines 721-748: dim_rename, for the dimensions carried
pull_dim_rename(r) ==
  LET base == dict_set(dict_set(dict_set(<<>>, r.ref_area_dim, "reference_area"),
                                "TIME_PERIOD", "time_period"),
                       r.instrument_dim, "financial_instrument")
  IN  dict_set(dict_set(dict_set(dict_set(dict_set(base,
        "FREQ", "frequency"),
        "CURRENCY", "currency_of_denomination"),
        "CURRENCY_DENOM", "currency_of_denomination"),
        "INSTITUTIONAL_SECTOR", "institutional_sector"),
        "SECTOR", "institutional_sector")

\* lines 408-419 of _sdmx_json_to_tidy: the rows of the entries from
\* position i on, or the exception of the first entry that raises
RECURSIVE tidy_rows(_, _, _, _, _)
tidy_rows(dims, rename, obs_map, i, acc) ==
  IF i > Len(obs_map) THEN [error |-> NoError, rows |-> acc]
  ELSE LET r == decode_key(dims, rename, obs_map[i].key)
       IN  IF r.error # NoError THEN [error |-> r.error, rows |-> <<>>]
           ELSE tidy_rows(dims, rename, obs_map, i + 1,
                          Append(acc, [cells |-> r.cells,
                                       value |-> row_value(obs_map[i].obs)]))

_sdmx_json_to_tidy_rejects_empty(payload, rename) ==
  IF payload.observations = <<>>
  THEN [error |-> <<"ValueError">>, rows |-> <<>>]
  ELSE tidy_rows(payload.dims, rename, payload.observations, 1, <<>>)

\* _sdmx_json_to_tidy(payload, dim_rename)
_sdmx_json_to_tidy(payload, rename) ==
  tidy_rows(payload.dims, rename, payload.observations, 1, <<>>)

PayloadOf(has_datasets, obs_map) ==
  [dataSets |-> has_datasets,
   dims |-> <<[id |-> "FREQ", values |-> PayloadValues("FREQ")]>>,
   observations |-> obs_map]

Observation(i) == [key |-> str_int(i), obs |-> [is_list |-> TRUE, items |-> <<7>>]]

\* the JSON bodies a data request may be answered with: no dataSets, an
\* empty observation map, one or two observations, an index out of range
Payloads ==
  {PayloadOf(FALSE, <<>>), PayloadOf(TRUE, <<>>),
   PayloadOf(TRUE, <<Observation(0)>>),
   PayloadOf(TRUE, <<Observation(1), Observation(0)>>),
   PayloadOf(TRUE, <<Observation(0), Observation(2)>>)}

\* the outcomes of _get_json_with_retry
DataOutcomes ==
  {[kind |-> "json", payload |-> p] : p \in Payloads}
  \cup {[kind |-> "HTTPError", payload |-> PayloadOf(FALSE, <<>>)]}

RECURSIVE concat_last_first(_)
concat_last_first(fs) ==
  IF fs = <<>> THEN <<>> ELSE concat_last_first(Tail(fs)) \o fs[1]

\* pd.concat(frames, ignore_index=True)
RECURSIVE concat(_)
concat(fs) == IF fs = <<>> THEN <<>> ELSE fs[1] \o concat(Tail(fs))

PullIdle ==
  /\ pull_catalog = <<>>
  /\ pull_template = <<>>
  /\ ppc = "idle"
  /\ roles = NoRoles
  /\ ref_areas = <<>>
  /\ instruments = <<>>
  /\ role_codes = NoRoleCodes
  /\ iterations = 0
  /\ pull_overrides = <<>>
  /\ pull_keys = <<>>
  /\ data_calls = 0
  /\ data_log = <<>>
  /\ frames = <<>>
  /\ pull_result = <<>>
  /\ pull_error = NoError

PullInit ==
  /\ pull_catalog \in Catalogs
  /\ pull_template \in {TemplateOf(Len(pull_catalog)), TemplateOf(Len(pull_catalog) + 1)}
  /\ ppc = "start"
  /\ roles = NoRoles
  /\ ref_areas = <<>>
  /\ instruments = <<>>
  /\ role_codes = NoRoleCodes
  /\ iterations = 0
  /\ pull_overrides = <<>>
  /\ pull_keys = <<>>
  /\ data_calls = 0
  /\ data_log = <<>>
  /\ frames = <<>>
  /\ pull_result = <<>>
  /\ pull_error = NoError

PullRaise_returns_partial(e) ==
  /\ ppc' = "returned"
  /\ pull_error' = e

PullRaise(e) ==
  /\ ppc' = "raised"
  /\ pull_error' = e

\* line 502: fetch_structure returns the catalog or raises
PullFetchStructure ==
  /\ ppc = "start"
  /\ \/ ppc' = "roles" /\ UNCHANGED pull_error
     \/ PullRaise(<<"HTTPError">>)
  /\ UNCHANGED <<pull_catalog, pull_template, roles, ref_areas, instruments,
                 role_codes, iterations, pull_overrides, pull_keys, data_calls, data_log,
                 frames, pull_result>>
  /\ UNCHANGED notPull

\* lines 504-526: the roles, and the check of the required ones
PullRoles ==
  /\ ppc = "roles"
  /\ roles' = resolve_roles(pull_catalog)
  /\ IF required_role_missing(resolve_roles(pull_catalog))
     THEN PullRaise(<<"ValueError", "Required dimensions not found">>)
     ELSE ppc' = "lists" /\ UNCHANGED pull_error
  /\ UNCHANGED <<pull_catalog, pull_template, ref_areas, instruments,
                 role_codes, iterations, pull_overrides, pull_keys, data_calls, data_log,
                 frames, pull_result>>
  /\ UNCHANGED notPull

\* lines 528-552: the reference areas and the instruments
PullLists ==
  /\ ppc = "lists"
  /\ LET areas == resolve_ref_areas(pull_catalog, roles.ref_area_dim)
         ins == resolve_instruments(pull_catalog, roles.instrument_dim,
                                    TARGET_INSTRUMENTS)
     IN  IF areas = <<>>
         THEN /\ PullRaise(<<"ValueError", "None of the requested reference areas">>)
              /\ UNCHANGED <<ref_areas, instruments>>
         ELSE /\ ref_areas' = areas
              /\ IF ins.missing # <<>>
                 THEN /\ PullRaise(<<"ValueError", "Requested INSTR_ASSET codes not found">>)
                      /\ UNCHANGED instruments
                 ELSE /\ instruments' = ins.instruments
                      /\ ppc' = "codes"
                      /\ UNCHANGED pull_error
  /\ UNCHANGED <<pull_catalog, pull_template, roles, role_codes, iterations,
                 pull_overrides, pull_keys, data_calls, data_log, frames, pull_result>>
  /\ UNCHANGED notPull

\* lines 554-700: the codes of the optional roles
PullCodes ==
  /\ ppc = "codes"
  /\ LET f == role_code(pull_catalog, roles.freq_dim, <<<<"annual">>>>,
                        <<<<"A">>>>, FALSE)
         s == role_code(pull_catalog, roles.sector_dim,
                        <<<<"general", " ", "government">>>>, <<<<"S13">>>>, FALSE)
         c == role_code(pull_catalog, roles.currency_denom_dim,
                        <<<<"all", " ", "currencies">>>>, <<<<"_T">>>>, TRUE)
     IN  IF f.pc = "raised" THEN PullRaise(f.error) /\ UNCHANGED role_codes
         ELSE IF s.pc = "raised" THEN PullRaise(s.error) /\ UNCHANGED role_codes
         ELSE IF c.pc = "raised" THEN PullRaise(c.error) /\ UNCHANGED role_codes
         ELSE /\ role_codes' = [freq_code |-> f.result, sector_code |-> s.result,
                                currency_denom_code |-> c.result]
              /\ ppc' = "loop"
              /\ UNCHANGED pull_error
  /\ UNCHANGED <<pull_catalog, pull_template, roles, ref_areas, instruments,
                 iterations, pull_overrides, pull_keys, data_calls, data_log, frames,
                 pull_result>>
  /\ UNCHANGED notPull

\* lines 752-807: the body of the loops for one (ref_area, instrument) pair
PullIteration ==
  /\ ppc = "loop"
  /\ iterations < Len(ref_areas) * Len(instruments)
  /\ LET ref_area == ref_areas[(iterations \div Len(instruments)) + 1]
         instrument == instruments[(iterations % Len(instruments)) + 1]
         ovr == build_overrides(roles, role_codes, ref_area, instrument)
         k == _build_key([i \in 1..Len(pull_catalog) |-> pull_catalog[i].id],
                         pull_template, ovr)
     IN  /\ pull_overrides' = ovr
         /\ IF k.kpc = "raised"
            THEN /\ PullRaise(k.error)
                 /\ UNCHANGED <<iterations, pull_keys, data_calls, data_log, frames>>
            ELSE /\ pull_keys' = Append(pull_keys, k.key)
                 /\ data_calls' = data_calls + 1
                 /\ \E answer \in DataOutcomes :
                      /\ data_log' = Append(data_log, answer)
                      /\ IF answer.kind = "HTTPError"
                         THEN /\ PullRaise(<<"HTTPError">>)
                              /\ UNCHANGED <<iterations, frames>>
                         ELSE IF ~answer.payload.dataSets
                         THEN /\ iterations' = iterations + 1
                              /\ UNCHANGED <<ppc, pull_error, frames>>
                         ELSE LET df == _sdmx_json_to_tidy(answer.payload,
                                                           pull_dim_rename(roles))
                              IN  IF df.error # NoError
                                  THEN /\ PullRaise(df.error)
                                       /\ UNCHANGED <<iterations, frames>>
                                  ELSE /\ iterations' = iterations + 1
                                       /\ frames' = IF df.rows # <<>>
                                                    THEN Append(frames, df.rows)
                                                    ELSE frames
                                       /\ UNCHANGED <<ppc, pull_error>>
  /\ UNCHANGED <<pull_catalog, pull_template, roles, ref_areas, instruments,
                 role_codes, pull_result>>
  /\ UNCHANGED notPull

\* lines 809-823: the concatenated frames, or the empty table
PullReturn ==
  /\ ppc = "loop"
  /\ iterations = Len(ref_areas) * Len(instruments)
  /\ pull_result' = IF frames # <<>> THEN concat(frames) ELSE <<>>
  /\ ppc' = "returned"
  /\ UNCHANGED <<pull_catalog, pull_template, roles, ref_areas, instruments,
                 role_codes, iterations, pull_overrides, pull_keys, data_calls, data_log,
                 frames, pull_error>>
  /\ UNCHANGED notPull

PullNext ==
  \/ PullFetchStructure
  \/ PullRoles
  \/ PullLists
  \/ PullCodes
  \/ PullIteration
  \/ PullReturn

(***************************************************************************)
(* The retrying calls of the BIS, IMF and Data360 clients, and _fetch_csv.  *)
(* A body is a text: a sequence of symbols.                                *)
(***************************************************************************)
Whitespace == {" ", "\n", "\t"}

\* str.lstrip()
RECURSIVE lstrip(_)
lstrip(s) == IF s # <<>> /\ s[1] \in Whitespace THEN lstrip(Tail(s)) ELSE s

\* str.startswith(prefix) for a one-symbol prefix
startswith(s, prefix) == s # <<>> /\ s[1] = prefix

CsvBody == <<"FREQ", ",", "OBS_VALUE", "\n", "A", ",", "7", "\n">>

\* the bodies the BIS data endpoint may send with status 200
BisBodies ==
  {CsvBody, <<"FREQ", ",", "OBS_VALUE", "\n">>, <<>>, <<" ", "\n">>,
   <<"<", "html", ">">>, <<"\n", " ", "<", "html", ">">>,
   <<"{", "error", "}">>, <<" ", "{", "error", "}">>,
   <<"Service", " ", "Unavailable">>}

\* the bodies the Data360 endpoint may send with status 200
WbBodies == {<<"{", "value", "}">>, <<"<", "html", ">">>, <<>>}

\* response.json() succeeds
json_parses(text) ==
  Len(text) >= 2 /\ text[1] = "{" /\ text[Len(text)] = "}"

NoFrame == [columns |-> <<>>, records |-> <<>>]

\* pd.read_csv: the header line and the records; blank lines are skipped
read_csv(text) ==
  LET lines == SelectSeq(split(text, "\n"), NonEmptyText)
  IN  IF lines = <<>> \/ lstrip(text) = <<>>
      THEN [error |-> <<"EmptyDataError">>, frame |-> NoFrame]
      ELSE [error |-> NoError,
            frame |-> [columns |-> split(lines[1], ","),
                       records |-> [i \in 1..(Len(lines) - 1) |->
                                      split(lines[i + 1], ",")]]]

non_csv_unstripped(text) == startswith(text, "<") \/ startswith(text, "{")

\* pull_bis._fetch_csv, line 280
non_csv(text) ==
  startswith(lstrip(text), "<") \/ startswith(lstrip(text), "{")

TransportErrors == {<<"ConnectionError">>, <<"Timeout">>}

StatusErrors == {<<"HTTPError", 500>>, <<"HTTPError", 404>>}

\* what one attempt may meet: [log, error, text]
ClientAnswers(c) ==
  {[log |-> "transport", error |-> e, text |-> <<>>] : e \in TransportErrors}
  \cup {[log |-> "status", error |-> e, text |-> <<>>] : e \in StatusErrors}
  \cup (CASE c = "bis" ->
               {[log |-> "ok", error |-> NoError, text |-> b] : b \in BisBodies}
          [] c = "wb" ->
               {[log |-> IF json_parses(b) THEN "ok" ELSE "format",
                 error |-> IF json_parses(b) THEN NoError ELSE <<"JSONDecodeError">>,
                 text |-> b] : b \in WbBodies}
          [] c = "imf" ->
               {[log |-> "ok", error |-> NoError, text |-> <<"message">>],
                [log |-> "format", error |-> <<"XMLParseError">>, text |-> <<>>]})

NoResult == [kind |-> "none", text |-> <<>>, frame |-> NoFrame]

is_last_attempt_off_by_one(c, a, n) == c # "imf" /\ a >= n

\* pull_bis line 167, pull_WB line 254: the failed attempt is the last one
\* (fetch_data has no such test)
is_last_attempt(c, a, n) == c # "imf" /\ a >= n - 1

ClientIdle ==
  /\ client = "bis"
  /\ retries = 0
  /\ tries = 0
  /\ cpc = "idle"
  /\ attempt_log = <<>>
  /\ attempt_errs = <<>>
  /\ naps = <<>>
  /\ last_err = NoError
  /\ payload_text = <<>>
  /\ client_result = NoResult
  /\ client_error = NoError
  /\ client_cause = NoError

ClientInit ==
  /\ client \in {"bis", "imf", "wb"}
  /\ retries \in 0..MaxRetries
  /\ tries = 0
  /\ cpc = "loop"
  /\ attempt_log = <<>>
  /\ attempt_errs = <<>>
  /\ naps = <<>>
  /\ last_err = NoError
  /\ payload_text = <<>>
  /\ client_result = NoResult
  /\ client_error = NoError
  /\ client_cause = NoError

\* one pass of the retry loop: pull_bis lines 162-169, pull_imf lines
\* 158-163, pull_WB lines 247-256
ClientAttempt ==
  /\ cpc = "loop"
  /\ tries < retries
  /\ \E answer \in ClientAnswers(client) :
       /\ tries' = tries + 1
       /\ attempt_log' = Append(attempt_log, answer.log)
       /\ attempt_errs' = Append(attempt_errs, answer.error)
       /\ IF answer.error = NoError
          THEN /\ IF client = "bis"
                  THEN /\ cpc' = "csv"
                       /\ payload_text' = answer.text
                       /\ UNCHANGED client_result
                  ELSE /\ cpc' = "returned"
                       /\ client_result' = [kind |-> "data", text |-> answer.text,
                                            frame |-> NoFrame]
                       /\ UNCHANGED payload_text
               /\ UNCHANGED <<naps, last_err, client_error>>
          ELSE /\ last_err' = IF client = "bis" THEN last_err ELSE answer.error
               /\ IF is_last_attempt(client, tries, retries)
                  THEN /\ cpc' = "raised"
                       /\ client_error' = answer.error
                       /\ UNCHANGED naps
                  ELSE /\ naps' = Append(naps, IF client = "bis" THEN 0 ELSE tries + 1)
                       /\ UNCHANGED <<cpc, client_error>>
               /\ UNCHANGED <<payload_text, client_result>>
  /\ UNCHANGED <<client, retries, client_cause>>
  /\ UNCHANGED notClient

\* the loop ended without a return: pull_bis falls off the end and returns
\* None, pull_imf line 164, pull_WB lines 258-260
ClientLoopEnds ==
  /\ cpc = "loop"
  /\ tries >= retries
  /\ CASE client = "bis" ->
            /\ cpc' = "csv"
            /\ payload_text' = <<PyNone>>
            /\ UNCHANGED <<client_error, client_cause>>
       [] client = "imf" ->
            /\ cpc' = "raised"
            /\ client_error' = <<"RuntimeError">>
            /\ client_cause' = last_err
            /\ UNCHANGED payload_text
       [] client = "wb" ->
            /\ cpc' = "raised"
            /\ client_error' = IF last_err # NoError THEN last_err
                               ELSE <<"RuntimeError">>
            /\ UNCHANGED <<payload_text, client_cause>>
  /\ UNCHANGED <<client, retries, tries, attempt_log, attempt_errs, naps,
                 last_err, client_result>>
  /\ UNCHANGED notClient

\* pull_bis._fetch_csv, lines 280-282
FetchCsv ==
  /\ cpc = "csv"
  /\ IF payload_text = <<PyNone>>
     THEN /\ cpc' = "raised"
          /\ client_error' = <<"AttributeError">>
          /\ UNCHANGED client_result
     ELSE IF non_csv(payload_text)
     THEN /\ cpc' = "raised"
          /\ client_error' = <<"ValueError">>
          /\ UNCHANGED client_result
     ELSE IF read_csv(payload_text).error # NoError
     THEN /\ cpc' = "raised"
          /\ client_error' = read_csv(payload_text).error
          /\ UNCHANGED client_result
     ELSE /\ cpc' = "returned"
          /\ client_result' = [kind |-> "frame", text |-> <<>>,
                               frame |-> read_csv(payload_text).frame]
          /\ UNCHANGED client_error
  /\ UNCHANGED <<client, retries, tries, attempt_log, attempt_errs, naps,
                 last_err, payload_text, client_cause>>
  /\ UNCHANGED notClient

ClientTerminated == cpc \in {"returned", "raised"}

ClientNext ==
  \/ ClientAttempt
  \/ ClientLoopEnds
  \/ FetchCsv

(***************************************************************************)
(* _parse_structure_xml.  A document is known by the codelists and the     *)
(* dimensions it declares, in document order, and its time dimension.  A   *)
(* dimension declares its id and the id of the codelist its Enumeration    *)
(* refers to (PyNone when the dimension has no Enumeration/Ref).  A dict   *)
(* is the sequence of its <<key, value>> pairs in insertion order.         *)
(***************************************************************************)
\* lines 216-225: the dict codelists; a later codelist of the same id
\* replaces the earlier one
RECURSIVE codelists_of(_)
codelists_of(cls) ==
  IF cls = <<>> THEN <<>>
  ELSE dict_set(codelists_of(SubSeq(cls, 1, Len(cls) - 1)),
                cls[Len(cls)].id, cls[Len(cls)].codes)

\* line 235: codelists.get(cl_id, [])
codelists_get(codelists, cl_id) ==
  IF \E i \in 1..Len(codelists) : codelists[i][1] = cl_id
  THEN codelists[CHOOSE i \in 1..Len(codelists) : codelists[i][1] = cl_id][2]
  ELSE <<>>

RECURSIVE parse_dimensions_resolved_only(_, _, _, _)
parse_dimensions_resolved_only(codelists, dim_list, i, acc) ==
  IF i > Len(dim_list) THEN acc
  ELSE LET dim == dim_list[i]
       IN  IF \A c \in 1..Len(codelists) : codelists[c][1] # dim.ref
           THEN parse_dimensions_resolved_only(codelists, dim_list, i + 1, acc)
           ELSE parse_dimensions_resolved_only(
                  codelists, dim_list, i + 1,
                  [series_dims |-> Append(acc.series_dims,
                                          [id |-> dim.id,
                                           values |-> codelists_get(codelists, dim.ref)]),
                   dim_values |-> dict_set(acc.dim_values, dim.id,
                                           codelists_get(codelists, dim.ref))])

\* lines 231-237: the loop over dim_list, from dimension i on
RECURSIVE parse_dimensions(_, _, _, _)
parse_dimensions(codelists, dim_list, i, acc) ==
  IF i > Len(dim_list) THEN acc
  ELSE LET dim == dim_list[i]
           values == codelists_get(codelists, dim.ref)
       IN  parse_dimensions(
             codelists, dim_list, i + 1,
             [series_dims |-> Append(acc.series_dims,
                                     [id |-> dim.id, values |-> values]),
              dim_values |-> dict_set(acc.dim_values, dim.id, values)])

NoParse == [series_dims |-> <<>>, obs_dims |-> <<>>, dim_values |-> <<>>]

\* lines 207-243: what the parser returns for a well-formed document
parse_structure(doc) ==
  LET r == parse_dimensions(codelists_of(doc.codelists), doc.dim_list, 1,
                            [series_dims |-> <<>>, dim_values |-> <<>>])
  IN  [series_dims |-> r.series_dims,
       obs_dims |-> IF doc.time_dim # PyNone
                    THEN <<[id |-> doc.time_dim, values |-> <<>>]>>
                    ELSE <<>>,
       dim_values |-> r.dim_values]

\* the codelists a document may declare
XmlCodelists ==
  {<<>>,
   <<[id |-> "CL_AREA", codes |-> <<[code |-> "USA", label |-> "United States"]>>]>>,
   <<[id |-> "CL_AREA", codes |-> <<[code |-> "USA", label |-> "United States"]>>],
     [id |-> "CL_FREQ", codes |-> <<>>]>>,
   <<[id |-> "CL_FREQ", codes |-> <<[code |-> "A", label |-> PyNone]>>],
     [id |-> "CL_AREA", codes |-> <<[code |-> "USA", label |-> "United States"],
                                    [code |-> "CAN", label |-> "Canada"]>>]>>}

XmlDimIds == {"REF_AREA", "FREQ", "MEASURE"}

\* the codelist a dimension refers to: none, one of the two codelists, or a
\* codelist no document declares
XmlRefs == {PyNone, "CL_AREA", "CL_FREQ", "CL_OTHER"}

\* the dimension lists: the ids of a DimensionList are distinct
XmlDimLists ==
  {d \in SeqsUpTo([id : XmlDimIds, ref : XmlRefs], MaxDims) :
     \A i, j \in 1..Len(d) : d[i].id = d[j].id => i = j}

XmlDocuments ==
  [xml : {TRUE}, codelists : XmlCodelists, dim_list : XmlDimLists,
   time_dim : {PyNone, "TIME_PERIOD"}]
  \cup [xml : {FALSE}, codelists : {<<>>}, dim_list : {<<>>}, time_dim : {PyNone}]

ParseIdle ==
  /\ xml_doc = [xml |-> FALSE, codelists |-> <<>>, dim_list |-> <<>>,
                time_dim |-> PyNone]
  /\ parse_pc = "idle"
  /\ parsed = NoParse

ParseInit ==
  /\ xml_doc \in XmlDocuments
  /\ parse_pc = "call"
  /\ parsed = NoParse

\* one call of _parse_structure_xml: line 208 raises for a text that is no
\* XML
ParseStructure ==
  /\ parse_pc = "call"
  /\ IF xml_doc.xml
     THEN parse_pc' = "returned" /\ parsed' = parse_structure(xml_doc)
     ELSE parse_pc' = "raised" /\ UNCHANGED parsed
  /\ UNCHANGED xml_doc
  /\ UNCHANGED notParse

ParseNext == ParseStructure

(***************************************************************************)
(* Data360Client.iter_data.  The records of the server are numbered from   *)
(* 0; a page is the sequence of the records it carries and its count: the  *)
(* sequence of one number, empty when the payload has no count.            *)
(***************************************************************************)
\* the records s, s + 1, ..., s + n - 1
RecordsFrom(s, n) == [i \in 1..n |-> s + i - 1]

Min(a, b) == IF a <= b THEN a ELSE b

\* payload.get("count") is None
NoCount == <<>>

\* the pages of a server with t records that answers skip s with a
\* non-empty page of the records from s on, and carries the count
GoodPages(s, t) ==
  IF s < t
  THEN {[records |-> RecordsFrom(s, Min(k, t - s)), count |-> <<t>>] : k \in 1..MaxPage}
  ELSE {[records |-> <<>>, count |-> <<t>>]}

\* what a request with skip s may be answered with: a good page, an empty
\* page, or a page without count
PageAnswers(s, t) ==
  GoodPages(s, t)
  \cup {[records |-> <<>>, count |-> <<t>>], [records |-> <<>>, count |-> NoCount]}
  \cup {[records |-> g.records, count |-> NoCount] : g \in GoodPages(s, t)}

next_skip_by_one(s, records) == s + 1

\* line 289: skip += len(records)
next_skip(s, records) == s + Len(records)

PageIdle ==
  /\ server_total = 0
  /\ paginate = FALSE
  /\ initial_skip = 0
  /\ skip = 0
  /\ pages = <<>>
  /\ yielded = <<>>
  /\ ipc = "idle"

\* line 273
PageInit ==
  /\ server_total \in 0..MaxTotal
  /\ paginate \in BOOLEAN
  /\ initial_skip \in 0..MaxTotal
  /\ skip = initial_skip
  /\ pages = <<>>
  /\ yielded = <<>>
  /\ ipc = "loop"

\* lines 274-291: one pass of the loop, the consumer taking every record
PageRequest ==
  /\ ipc = "loop"
  /\ \E answer \in PageAnswers(skip, server_total) :
       /\ pages' = Append(pages, [skip |-> skip, records |-> answer.records,
                                  count |-> answer.count])
       /\ yielded' = yielded \o answer.records
       /\ IF ~paginate \/ answer.records = <<>>
          THEN ipc' = "done" /\ UNCHANGED skip
          ELSE IF answer.count = NoCount
          THEN ipc' = "done" /\ UNCHANGED skip
          ELSE /\ skip' = next_skip(skip, answer.records)
               /\ ipc' = IF next_skip(skip, answer.records) >= answer.count[1]
                         THEN "done" ELSE "loop"
  /\ UNCHANGED <<server_total, paginate, initial_skip>>
  /\ UNCHANGED notPage

\* line 276: self._get raises
PageRequestFails ==
  /\ ipc = "loop"
  /\ ipc' = "raised"
  /\ UNCHANGED <<server_total, paginate, initial_skip, skip, pages, yielded>>
  /\ UNCHANGED notPage

PageNext ==
  \/ PageRequest
  \/ PageRequestFails

(***************************************************************************)
(* The default year chunks of pull_currency_aggregates_all_investors and   *)
(* the requests of its loop.                                               *)
(***************************************************************************)
\* line 281: the years of the default chunks
FirstChunkEnd == 2009

SecondChunkStart == 2010

SecondChunkEnd == 2015

ThirdChunkStart == 2016

Years == (FirstChunkEnd - MaxYearsAround)..(ThirdChunkStart + MaxYearsAround)

\* line 282: [yc for yc in year_chunks if yc[0] <= yc[1]]
keep_ordered_chunks(chunks) ==
  SelectSeq(chunks, LAMBDA yc : yc[1] <= yc[2])

\* lines 281-282
default_year_chunks(ys, ye) ==
  keep_ordered_chunks(<<<<ys, Min(FirstChunkEnd, ye)>>,
                        <<SecondChunkStart, Min(SecondChunkEnd, ye)>>,
                        <<ThirdChunkStart, ye>>>>)

ChunkIdle ==
  /\ start_year = 0
  /\ end_year = 0
  /\ year_chunks = <<>>
  /\ periods = <<>>
  /\ chpc = "idle"

\* a call with year_chunks not given
ChunkInit ==
  /\ start_year \in Years
  /\ end_year \in Years
  /\ start_year <= end_year
  /\ year_chunks = <<>>
  /\ periods = <<>>
  /\ chpc = "default"

\* lines 280-282
ChunkDefault ==
  /\ chpc = "default"
  /\ year_chunks' = default_year_chunks(start_year, end_year)
  /\ chpc' = "loop"
  /\ UNCHANGED <<start_year, end_year, periods>>
  /\ UNCHANGED notChunk

\* lines 285-299: one pass of the loop; fetch_data returns or raises
ChunkRequest ==
  /\ chpc = "loop"
  /\ Len(periods) < Len(year_chunks)
  /\ periods' = Append(periods, year_chunks[Len(periods) + 1])
  /\ \/ UNCHANGED chpc
     \/ chpc' = "raised"
  /\ UNCHANGED <<start_year, end_year, year_chunks>>
  /\ UNCHANGED notChunk

\* the loop is over
ChunkReturn ==
  /\ chpc = "loop"
  /\ Len(periods) = Len(year_chunks)
  /\ chpc' = "returned"
  /\ UNCHANGED <<start_year, end_year, year_chunks, periods>>
  /\ UNCHANGED notChunk

ChunkNext ==
  \/ ChunkDefault
  \/ ChunkRequest
  \/ ChunkReturn

(***************************************************************************)
(* The reference-area batches of the BIS pulls (_pull_domestic and         *)
(* _pull_international share the code).                                    *)
(***************************************************************************)
CodePool == <<"AR", "BR", "CA", "DE", "ES", "FR">>

\* the lists of resolved country codes
CodeLists == {SubSeq(CodePool, 1, n) : n \in 0..MaxCodes}

\* s[i : j] for 0 <= i <= j
slice(s, i, j) == SubSeq(s, i + 1, Min(j, Len(s)))

range_step_full_only(n, step) ==
  LET count == n \div step
  IN  [k \in 1..count |-> (k - 1) * step]

\* range(0, n, step) for step > 0
range_step(n, step) ==
  LET count == (n + step - 1) \div step
  IN  [k \in 1..count |-> (k - 1) * step]

\* lines 301-307 / 367-373
batches_of(codes, size) ==
  IF size > 0
  THEN LET starts == range_step(Len(codes), size)
       IN  [k \in 1..Len(starts) |-> slice(codes, starts[k], starts[k] + size)]
  ELSE <<codes>>

BatchIdle ==
  /\ bis_pull = "domestic"
  /\ bis_ref_areas = <<>>
  /\ batch_size = 0
  /\ batches = <<>>
  /\ batch_calls = <<>>
  /\ bpc = "idle"

BatchInit ==
  /\ bis_pull \in {"domestic", "international"}
  /\ bis_ref_areas \in CodeLists
  /\ batch_size \in -1..MaxBatch
  /\ batches = <<>>
  /\ batch_calls = <<>>
  /\ bpc = "split"

\* lines 300-307 / 366-373
BatchSplit ==
  /\ bpc = "split"
  /\ batches' = batches_of(bis_ref_areas, batch_size)
  /\ bpc' = "loop"
  /\ UNCHANGED <<bis_pull, bis_ref_areas, batch_size, batch_calls>>
  /\ UNCHANGED notBatch

\* lines 310-341 / 376-404: one pass of the loop; _fetch_csv returns a
\* frame or raises
BatchRequest ==
  /\ bpc = "loop"
  /\ Len(batch_calls) < Len(batches)
  /\ batch_calls' = Append(batch_calls, batches[Len(batch_calls) + 1])
  /\ \/ UNCHANGED bpc
     \/ bpc' = "raised"
  /\ UNCHANGED <<bis_pull, bis_ref_areas, batch_size, batches>>
  /\ UNCHANGED notBatch

\* the loop is over
BatchReturn ==
  /\ bpc = "loop"
  /\ Len(batch_calls) = Len(batches)
  /\ bpc' = "returned"
  /\ UNCHANGED <<bis_pull, bis_ref_areas, batch_size, batches, batch_calls>>
  /\ UNCHANGED notBatch

BatchNext ==
  \/ BatchSplit
  \/ BatchRequest
  \/ BatchReturn

(***************************************************************************)
(* The specifications: one per component, the other components idle.       *)
(***************************************************************************)
StructIdle == StructInit

InitFetch == FetchInit /\ KeyIdle /\ StructIdle /\ DecodeIdle /\ FindIdle /\ PullIdle /\ ClientIdle /\ ParseIdle /\ PageIdle /\ ChunkIdle /\ BatchIdle

SpecFetch == InitFetch /\ [][FetchNext]_vars

\* The server answers every request (or the transport fails), and the sleeps
\* end: every step of the call is eventually taken.
FairSpecFetch == SpecFetch /\ WF_vars(FetchNext)

InitKey == KeyInit /\ FetchIdle /\ StructIdle /\ DecodeIdle /\ FindIdle /\ PullIdle /\ ClientIdle /\ ParseIdle /\ PageIdle /\ ChunkIdle /\ BatchIdle

SpecKey == InitKey /\ [][KeyNext]_vars

InitStruct == StructInit /\ FetchIdle /\ KeyIdle /\ DecodeIdle /\ FindIdle /\ PullIdle /\ ClientIdle /\ ParseIdle /\ PageIdle /\ ChunkIdle /\ BatchIdle

SpecStructure == InitStruct /\ [][StructNext]_vars

InitDecode == DecodeInit /\ FetchIdle /\ KeyIdle /\ StructIdle /\ FindIdle /\ PullIdle /\ ClientIdle /\ ParseIdle /\ PageIdle /\ ChunkIdle /\ BatchIdle

SpecDecode == InitDecode /\ [][DecodeNext]_vars

InitFind == FindInit /\ FetchIdle /\ KeyIdle /\ StructIdle /\ DecodeIdle /\ PullIdle /\ ClientIdle /\ ParseIdle /\ PageIdle /\ ChunkIdle /\ BatchIdle

SpecFind == InitFind /\ [][FindNext]_vars

InitPull == PullInit /\ FetchIdle /\ KeyIdle /\ StructIdle /\ DecodeIdle /\ FindIdle /\ ClientIdle /\ ParseIdle /\ PageIdle /\ ChunkIdle /\ BatchIdle

SpecPull == InitPull /\ [][PullNext]_vars

InitClient == ClientInit /\ FetchIdle /\ KeyIdle /\ StructIdle /\ DecodeIdle /\ FindIdle /\ PullIdle /\ ParseIdle /\ PageIdle /\ ChunkIdle /\ BatchIdle

SpecClient == InitClient /\ [][ClientNext]_vars

\* Every request is answered or fails, and every sleep ends.
FairSpecClient == SpecClient /\ WF_vars(ClientNext)

InitParse == ParseInit /\ FetchIdle /\ KeyIdle /\ StructIdle /\ DecodeIdle /\ FindIdle /\ PullIdle /\ ClientIdle /\ PageIdle /\ ChunkIdle /\ BatchIdle

SpecParse == InitParse /\ [][ParseNext]_vars

InitPage == PageInit /\ FetchIdle /\ KeyIdle /\ StructIdle /\ DecodeIdle /\ FindIdle /\ PullIdle /\ ClientIdle /\ ParseIdle /\ ChunkIdle /\ BatchIdle

SpecPage == InitPage /\ [][PageNext]_vars

\* every request of the loop is answered or fails
FairSpecPage == SpecPage /\ WF_vars(PageNext)

InitChunk == ChunkInit /\ FetchIdle /\ KeyIdle /\ StructIdle /\ DecodeIdle /\ FindIdle /\ PullIdle /\ ClientIdle /\ ParseIdle /\ PageIdle /\ BatchIdle

SpecChunk == InitChunk /\ [][ChunkNext]_vars

InitBatch == BatchInit /\ FetchIdle /\ KeyIdle /\ StructIdle /\ DecodeIdle /\ FindIdle /\ PullIdle /\ ClientIdle /\ ParseIdle /\ PageIdle /\ ChunkIdle

SpecBatch == InitBatch /\ [][BatchNext]_vars

(***************************************************************************)
(* Claims about the fetchers.                                              *)
(***************************************************************************)
IsHTTPError(e, codes) == Len(e) = 2 /\ e[1] = "HTTPError" /\ e[2] \in codes

\* C2: after a 429 answer with a numeric Retry-After of n seconds on an
\* attempt that is not the last, the pause before the next attempt is
\* exactly n seconds.
C2_PauseIsRetryAfter ==
  (/\ fpc = "loop"
   /\ Len(slept) > 0
   /\ response.status = 429
   /\ response.retry_after.present
   /\ isdigit(response.retry_after.text))
  => slept[Len(slept)] = int_digits(response.retry_after.text)

\* C3: an HTTP error other than 401 and 429, or a transport error, reaches
\* the caller only after max_retries attempts have been made.
C3_ErrorsAreRetried ==
  (/\ fpc = "raised"
   /\ \/ fetch_error = <<"ConnectionError">>
      \/ IsHTTPError(fetch_error, {404, 500}))
  => session_gets = max_retries

\* C6: one call issues at most one anonymous request, a 401 answer to the
\* anonymous request ends the call with an error, and without configured
\* credentials no anonymous request is issued.
C6_OneAnonymousRetry ==
  /\ fallback_gets <= 1
  /\ (~session_auth => fallback_gets = 0)
  /\ (fpc = "check429" /\ fallback_gets > 0 /\ response.status = 401)
       => (~ENABLED Backoff /\ Finish(fn, response)[1] = "raised")

\* C7, the state part: at most max_retries requests through the caller's
\* session and at most max_retries - 1 sleeps; a 429 reaches the caller only
\* from the last attempt, after max_retries - 1 sleeps.
RetryBudgetInv ==
  max_retries >= 1 =>
    /\ session_gets <= max_retries
    /\ Len(slept) <= max_retries - 1
    /\ attempt <= max_retries - 1
    /\ (fpc = "raised" /\ IsHTTPError(fetch_error, {429}))
         => (session_gets = max_retries /\ Len(slept) = max_retries - 1)

\* C7, the step part: a 429 in hand on the last attempt is raised at once,
\* with no further sleep and no further request.
RetryBudgetStep ==
  (/\ max_retries >= 1
   /\ fpc = "check429"
   /\ response.status = 429
   /\ attempt = max_retries - 1)
  => /\ fpc' = "raised"
     /\ fetch_error' = <<"HTTPError", 429>>
     /\ slept' = slept
     /\ session_gets' = session_gets
     /\ fallback_gets' = fallback_gets

\* C7: retry budget: for every sequence of answers and every max_retries >= 1
\* a call issues at most max_retries session requests, sleeps at most
\* max_retries - 1 times, raises a 429 of the last attempt without a further
\* sleep or request, and terminates by returning or raising.
C7_RetryBudget ==
  /\ []RetryBudgetInv
  /\ [][RetryBudgetStep]_vars
  /\ <>FetchTerminated

C7_Witness ==
  /\ max_retries >= 2
  /\ fpc = "raised"
  /\ IsHTTPError(fetch_error, {429})
  /\ session_gets = max_retries
  /\ Len(slept) = max_retries - 1

(***************************************************************************)
(* Claims about the key builders.                                          *)
(***************************************************************************)
\* the orders in which a dict with the pairs of d can be iterated
Orderings(d) ==
  {p \in [1..Len(d) -> Range(d)] : Range(p) = Range(d)}

KeyDone == kpc \in {"returned", "raised"}

TemplateFits == Len(split(key_template, ".")) = Len(series_dims)

\* C8: for a template with one segment per catalog dimension, the key
\* returned has exactly one "."-delimited segment per dimension, the segment
\* at position p belongs to the dimension at position p of the catalog (it
\* is that dimension's code when the override is a single code), and the key
\* is the same for every iteration order of the override dict.  The key of
\* pull_bis._build_key has one segment per dimension too.
C8_DimensionOrderPreserved ==
  /\ (KeyDone /\ impl = "oecd" /\ TemplateFits) =>
       /\ kpc = "returned"
       /\ Len(split(key, ".")) = Len(series_dims)
       /\ \A p \in 1..Len(series_dims) :
            dict_get(overrides, series_dims[p]).kind = "str"
              => split(key, ".")[p] = dict_get(overrides, series_dims[p]).text
       /\ \A o \in Orderings(overrides) :
            _build_key(series_dims, key_template, o).key = key
  /\ (KeyDone /\ impl = "bis" /\ Len(series_dims) >= 1) =>
       /\ Len(split(key, ".")) = Len(series_dims)
       /\ \A o \in Orderings(overrides) :
            bis_build_key(series_dims, o, _build_empty_defaults(series_dims)) = key

C8_Witness ==
  /\ kpc = "returned"
  /\ impl = "oecd"
  /\ Len(series_dims) = 2
  /\ Len(overrides) = 2
  /\ overrides[1][1] = series_dims[2]
  /\ overrides[2][1] = series_dims[1]
  /\ overrides[1][2].kind = "str"
  /\ overrides[2][2].kind = "list"

\* C9: the segment of a dimension is the override code when the override is
\* a single value, the override codes joined with "+" in the given order
\* when it is a list, and the template's token when the dimension has no
\* override.
C9_TokenRule ==
  (kpc = "returned" /\ impl = "oecd") =>
    \A p \in 1..Len(series_dims) :
      LET segment == split(key, ".")[p]
          token == split(key_template, ".")[p]
          present == \E i \in 1..Len(overrides) : overrides[i][1] = series_dims[p]
          value == dict_get(overrides, series_dims[p])
      IN  /\ value.kind = "str" => segment = value.text
          /\ (value.kind = "list" /\ value.items # <<>>)
               => split(segment, "+") = value.items
          /\ (value.kind = "list" /\ value.items = <<>>) => segment = <<>>
          /\ ~present => segment = token
          /\ (~present /\ segment = <<>>) => token = <<>>

\* C9, the example: dimensions [FREQ, REF_AREA], template "A.US" and
\* overrides {REF_AREA: [US, CA]} give "A.US+CA".
C9_Witness ==
  /\ kpc = "returned"
  /\ impl = "oecd"
  /\ series_dims = <<"FREQ", "REF_AREA">>
  /\ key_template = <<"A", ".", "US">>
  /\ overrides = <<<<"REF_AREA", ListValue(<<<<"US">>, <<"CA">>>>)>>>>
  /\ key = <<"A", ".", "US", "+", "CA">>

\* C10: when the number of "."-delimited segments of the template differs
\* from the number of catalog dimensions, the call raises and returns no key.
C10_MismatchRaises ==
  (KeyDone /\ impl = "oecd" /\ ~TemplateFits) =>
    /\ kpc = "raised"
    /\ key_error = <<"ValueError">>
    /\ key = NoKey

C10_Witness ==
  /\ kpc = "raised"
  /\ impl = "oecd"
  /\ Len(series_dims) = 2
  /\ Len(split(key_template, ".")) = 3
  /\ Len(overrides) = 1

(***************************************************************************)
(* Claims about fetch_structure.                                           *)
(***************************************************************************)
\* C4: when two consecutive calls for the same dataflow reference, both
\* with the refresh flag off, return, and the first of them went to the
\* network, the two catalogs are identical, the second call issues no
\* network call and the two calls together issue exactly one.
C4_IdempotentCaching ==
  (/\ spc = "returned"
   /\ prev.spc = "returned"
   /\ prev.flow_ref = flow_ref
   /\ ~_is_truthy(prev.refresh)
   /\ ~_is_truthy(refresh)
   /\ prev.net_calls >= 1)
  => /\ catalog = prev.catalog
     /\ net_calls = 0
     /\ prev.net_calls + net_calls = 1

\* C5: a call that is served from the cache returns a catalog that was
\* fetched for its own flow_ref, never the cached catalog of another
\* dataflow.
C5_CacheKeyedByFlow ==
  (spc = "returned" /\ net_calls = 0 /\ catalog.flow # <<>>)
  => catalog.flow = flow_ref

(***************************************************************************)
(* Claims about the observation decoder.                                   *)
(***************************************************************************)
\* the indices of the key of the latest entry iterated
EntryIndices ==
  LET parts == split(entry.key, ":")
  IN  [p \in 1..Len(parts) |-> int_of(parts[p])]

OutputName(p) == dict_get_default(dim_rename, obs_dims[p].id, lower(obs_dims[p].id))

InRange(p, index) == index >= 0 /\ index < Len(obs_dims[p].values)

\* C1: an index that is out of range for its dimension's value list never
\* raises: every entry iterated gives a row, in which the dimension of the
\* out-of-range index has an empty code and label and every other dimension
\* (with a column of its own) has the code and label at its index.
C1_DecoderTotality ==
  /\ dpc # "raised"
  /\ Len(rows) = entries
  /\ entries > 0 =>
       \A p \in 1..zip_len(obs_dims, EntryIndices) :
         (\A q \in 1..Len(obs_dims) : OutputName(q) = OutputName(p) => q = p)
         => \E c \in 1..Len(rows[entries].cells) :
              /\ rows[entries].cells[c].name = OutputName(p)
              /\ IF InRange(p, EntryIndices[p])
                 THEN /\ rows[entries].cells[c].code
                           = obs_dims[p].values[EntryIndices[p] + 1].id
                      /\ rows[entries].cells[c].label
                           = obs_dims[p].values[EntryIndices[p] + 1].name
                 ELSE /\ rows[entries].cells[c].code = PyNone
                      /\ rows[entries].cells[c].label = PyNone

(***************************************************************************)
(* Claims about _find_code_by_label.                                       *)
(***************************************************************************)
FindDone == find_pc \in {"returned", "raised"}

SameIgnoringCase(a, b) == str_lower(a) = str_lower(b)

\* the code of value i equals some preferred code, case-insensitively
PreferredAt(i) ==
  \E j \in 1..Len(preferred_codes) :
    SameIgnoringCase(find_values[i].code, preferred_codes[j])

\* value i matches some pattern: its normalized label contains a non-empty
\* normalized pattern, or its lowercased code is that normalized pattern
PatternAt(i) ==
  \E j \in 1..Len(patterns) :
    /\ _normalize_label(patterns[j]) # <<>>
    /\ \/ contains(_normalize_label(patterns[j]),
                   _normalize_label(find_values[i].label))
       \/ str_lower(find_values[i].code) = _normalize_label(patterns[j])

\* value i matches some pattern, the code being compared as it is written
RawPatternAt(i) ==
  \E j \in 1..Len(patterns) :
    /\ _normalize_label(patterns[j]) # <<>>
    /\ \/ contains(_normalize_label(patterns[j]),
                   _normalize_label(find_values[i].label))
       \/ find_values[i].code = patterns[j]
       \/ find_values[i].code = _normalize_label(patterns[j])

\* C11: when some code of the dimension equals a preferred code
\* (case-insensitively), the call returns the first such code in declared
\* order, whatever the label patterns match.
C11_PreferredCodeWins ==
  (FindDone /\ \E i \in 1..Len(find_values) : PreferredAt(i))
  => /\ find_pc = "returned"
     /\ ~find_result.is_none
     /\ \E i \in 1..Len(find_values) :
          /\ PreferredAt(i)
          /\ \A k \in 1..(i - 1) : ~PreferredAt(k)
          /\ find_result.code = find_values[i].code

\* a pattern matches an earlier code, a later code is preferred (in another
\* case than it is written), and the preferred one is returned
C11_Witness ==
  /\ find_pc = "returned"
  /\ Len(find_values) = 2
  /\ PatternAt(1) /\ ~PreferredAt(1)
  /\ PreferredAt(2)
  /\ find_values[2].code \notin Range(preferred_codes)
  /\ find_values[1].code # find_values[2].code
  /\ find_result = FoundCode(find_values[2].code)

\* C12 (as stated): with no preferred code present, the call returns the
\* first code in declared order whose normalized label contains a non-empty
\* normalized pattern or whose code equals the pattern, and no code when
\* there is none.
C12_LabelMatchingRawCode ==
  (FindDone /\ \A i \in 1..Len(find_values) : ~PreferredAt(i))
  => IF \E i \in 1..Len(find_values) : RawPatternAt(i)
     THEN \E i \in 1..Len(find_values) :
            /\ RawPatternAt(i)
            /\ \A k \in 1..(i - 1) : ~RawPatternAt(k)
            /\ find_result = FoundCode(find_values[i].code)
     ELSE find_result.is_none

\* C12 (amended): with no preferred code present, the call returns the first
\* code in declared order whose normalized label contains a non-empty
\* normalized pattern or whose lowercased code equals the normalized
\* pattern; declared order decides, not pattern order, and when no code
\* matches (an empty pattern matches nothing) no code is returned.
C12_LabelMatching ==
  (FindDone /\ \A i \in 1..Len(find_values) : ~PreferredAt(i))
  => IF \E i \in 1..Len(find_values) : PatternAt(i)
     THEN \E i \in 1..Len(find_values) :
            /\ PatternAt(i)
            /\ \A k \in 1..(i - 1) : ~PatternAt(k)
            /\ find_result = FoundCode(find_values[i].code)
     ELSE find_result.is_none

\* pattern j matches value i
PatternHits(j, i) ==
  /\ _normalize_label(patterns[j]) # <<>>
  /\ \/ contains(_normalize_label(patterns[j]),
                 _normalize_label(find_values[i].label))
     \/ str_lower(find_values[i].code) = _normalize_label(patterns[j])

\* two codes match, the first one only by the second pattern, the second
\* one by the first pattern: the first code is returned
C12_Witness ==
  /\ find_pc = "returned"
  /\ Len(find_values) = 2 /\ Len(patterns) = 2
  /\ \A i \in 1..2 : ~PreferredAt(i)
  /\ ~PatternHits(1, 1) /\ PatternHits(2, 1)
  /\ PatternHits(1, 2)
  /\ find_values[1].code # find_values[2].code
  /\ find_result = FoundCode(find_values[1].code)

NothingMatches == \A i \in 1..Len(find_values) : ~PreferredAt(i) /\ ~PatternAt(i)

\* the first (up to five) code:label pairs of the dimension
ClaimedSample ==
  [i \in 1..(IF Len(find_values) < 5 THEN Len(find_values) ELSE 5) |->
     find_values[i].code \o <<":">> \o find_values[i].label]

\* C13: when neither a preferred code nor a pattern matches any code (also
\* for an empty dimension), the call returns none if allow_missing is true
\* and raises a ValueError otherwise; for a non-empty dimension the message
\* lists the first (up to five) code:label pairs.
C13_NoMatch ==
  (FindDone /\ NothingMatches)
  => IF allow_missing
     THEN find_pc = "returned" /\ find_result.is_none
     ELSE /\ find_pc = "raised"
          /\ find_error[1] = "ValueError"
          /\ find_values # <<>> => split(find_error[3], ", ") = ClaimedSample

\* a dimension of more than five values, nothing matches, allow_missing off
C13_Witness ==
  /\ find_pc = "raised"
  /\ NothingMatches
  /\ ~allow_missing
  /\ Len(find_values) > 5
  /\ patterns # <<>>

(***************************************************************************)
(* Claims about pull_oecd_table_0720.                                      *)
(***************************************************************************)
InCatalog(dim_id) == \E i \in 1..Len(pull_catalog) : pull_catalog[i].id = dim_id

\* the first of the candidates present in the catalog, else none
ClaimedRole(candidates) ==
  IF \E i \in 1..Len(candidates) : InCatalog(candidates[i])
  THEN candidates[CHOOSE i \in 1..Len(candidates) :
                    InCatalog(candidates[i])
                    /\ \A j \in 1..(i - 1) : ~InCatalog(candidates[j])]
  ELSE PyNone

RolesSet == ppc \in {"lists", "codes", "loop", "returned"} \/ (ppc = "raised" /\ roles # NoRoles)

\* the optional roles carried, each with the code resolved for it
OptionalRoles ==
  {<<roles.freq_dim, role_codes.freq_code>>,
   <<roles.sector_dim, role_codes.sector_code>>,
   <<roles.currency_denom_dim, role_codes.currency_denom_code>>}

Overridden(dim_id) == \E i \in 1..Len(pull_overrides) : pull_overrides[i][1] = dim_id

\* C14: each role is the first of its candidate ids present in the catalog,
\* else none; with the reference-area or the instrument role none the pull
\* raises and no data request is issued; an optional role that is none, or
\* whose code is none, has no override, and every key built carries the
\* template's token at the position of its dimension.
C14_RoleResolution ==
  /\ RolesSet =>
       /\ roles.ref_area_dim = ClaimedRole(<<"REF_AREA", "REFERENCE_AREA", "LOCATION">>)
       /\ roles.instrument_dim
            = ClaimedRole(<<"INSTR_ASSET", "FINANCIAL_INSTRUMENT", "INSTRUMENT">>)
       /\ roles.freq_dim = ClaimedRole(<<"FREQ", "FREQUENCY">>)
       /\ roles.sector_dim = ClaimedRole(<<"SECTOR", "INSTITUTIONAL_SECTOR">>)
       /\ roles.currency_denom_dim = ClaimedRole(<<"CURRENCY_DENOM", "CURRENCY">>)
  /\ (/\ ppc \notin {"idle", "start", "roles"}
      /\ \/ ~InCatalog("REF_AREA") /\ ~InCatalog("REFERENCE_AREA") /\ ~InCatalog("LOCATION")
         \/ ~InCatalog("INSTR_ASSET") /\ ~InCatalog("FINANCIAL_INSTRUMENT")
            /\ ~InCatalog("INSTRUMENT"))
     => ppc = "raised" /\ data_calls = 0 /\ pull_keys = <<>>
  /\ pull_keys # <<>> =>
       \A role \in OptionalRoles :
         (role[1] = PyNone \/ role[2].is_none)
         => /\ ~Overridden(role[1])
            /\ \A p \in 1..Len(pull_catalog) :
                 pull_catalog[p].id = role[1]
                 => split(pull_keys[Len(pull_keys)], ".")[p] = <<TemplateTokens[p]>>

\* a key was built for a catalog without a frequency dimension whose
\* currency role resolved to its second candidate, with no code
C14_Witness ==
  /\ pull_keys # <<>>
  /\ roles.currency_denom_dim = "CURRENCY"
  /\ role_codes.currency_denom_code.is_none
  /\ roles.freq_dim = PyNone
  /\ \E p \in 1..Len(pull_catalog) :
       /\ pull_catalog[p].id = "CURRENCY"
       /\ split(pull_keys[1], ".")[p] = <<TemplateTokens[p]>>

(***************************************************************************)
(* More claims about the observation decoder.                              *)
(***************************************************************************)
\* the key of the latest entry holds one in-range index per dimension
EntryInRange ==
  /\ entries > 0
  /\ Len(EntryIndices) = Len(obs_dims)
  /\ \A p \in 1..Len(obs_dims) : InRange(p, EntryIndices[p])

\* the latest row holds, for the dimension at position p, the id and name
\* of the value at the index found at position p of the key
DecodedAt(p) ==
  \E c \in 1..Len(rows[entries].cells) :
    /\ rows[entries].cells[c].name = OutputName(p)
    /\ rows[entries].cells[c].code = obs_dims[p].values[EntryIndices[p] + 1].id
    /\ rows[entries].cells[c].label = obs_dims[p].values[EntryIndices[p] + 1].name

\* C15: an entry whose key holds one in-range index per observation
\* dimension gives one row, appended after the rows of the entries before
\* it, and in that row every dimension has the code and label of its value
\* at the index of its position.
C15_OneRowPerEntry ==
  EntryInRange
  => /\ dpc # "raised"
     /\ Len(rows) = entries
     /\ \A p \in 1..Len(obs_dims) : DecodedAt(p)

\* the same, for the dimensions whose output column no other dimension of
\* the payload is renamed to
DecodedInOwnColumns ==
  EntryInRange
  => /\ dpc # "raised"
     /\ Len(rows) = entries
     /\ \A p \in 1..Len(obs_dims) :
          (\A q \in 1..Len(obs_dims) : OutputName(q) = OutputName(p) => q = p)
          => DecodedAt(p)

\* C16: a decoded row holds one (code, label) column pair per observation
\* dimension decoded: no two dimensions are written to the same column, and
\* no dimension's code is overwritten by another's.
C16_OneColumnPairPerDimension ==
  (entries > 0 /\ Len(rows) = entries)
  => /\ Len(rows[entries].cells) = zip_len(obs_dims, EntryIndices)
     /\ \A p \in 1..zip_len(obs_dims, EntryIndices) : DecodedAt(p)

(***************************************************************************)
(* Claims about bodies of an unexpected format and about the retry budget  *)
(* of the other clients.                                                   *)
(***************************************************************************)
\* C17: a body of an unexpected content type received with a success status
\* is a failure and is never parsed as data: _fetch_csv raises for a body
\* that starts with "<" or "{", and fetch_structure never returns the
\* catalog of an HTML/error page.
C17_UnexpectedBodyIsFailure ==
  /\ (/\ client = "bis"
      /\ ClientTerminated
      /\ payload_text # <<>>
      /\ payload_text[1] \in {"<", "{"})
     => cpc = "raised" /\ client_result = NoResult
  /\ spc = "returned" =>
       catalog \notin {_parse_structure_xml(HtmlPage), _parse_structure_xml(XhtmlPage)}

\* the BIS half of C17, which holds
FetchCsvRejectsMarkup ==
  (/\ client = "bis"
   /\ ClientTerminated
   /\ payload_text # <<>>
   /\ payload_text[1] \in {"<", "{"})
  => cpc = "raised" /\ client_result = NoResult

\* the OECD half of C18, which holds: with a 200 answer whose body is not
\* JSON in hand, _get_json_with_retry is about to raise or has raised the
\* parse failure, and is never back in its loop
OecdFormatErrorNotRetried ==
  (/\ fn = "json"
   /\ response.status = 200
   /\ response.body = "html"
   /\ fpc # "check429")
  => fpc = "raised" /\ fetch_error = <<"JSONDecodeError">>

\* the Data360 half of C18: a response whose body failed to parse is the
\* last request of _get, and _get raises the parse failure
Data360FormatErrorNotRetried ==
  client = "wb" =>
    \A i \in 1..Len(attempt_log) :
      attempt_log[i] = "format" =>
        /\ i = Len(attempt_log)
        /\ cpc = "raised"
        /\ client_error = attempt_errs[i]

\* C18: a format error is not retried: after a success-status response
\* whose body fails to parse, neither _get_json_with_retry nor Data360's
\* _get issues another request; the parse failure is raised after that
\* single response.
C18_FormatErrorNotRetried ==
  OecdFormatErrorNotRetried /\ Data360FormatErrorNotRetried

(***************************************************************************)
(* Claims about empty results and exhausted retry budgets.                 *)
(***************************************************************************)
\* the answer has zero observations: no dataSets, or an empty observation map
ZeroObservations(answer) ==
  /\ answer.kind = "json"
  /\ ~answer.payload.dataSets \/ answer.payload.observations = <<>>

\* the observations of the answers of the first n data requests
RECURSIVE ObservationsAnswered(_)
ObservationsAnswered(n) ==
  IF n = 0 THEN 0
  ELSE ObservationsAnswered(n - 1)
       + (IF data_log[n].payload.dataSets
          THEN Len(data_log[n].payload.observations) ELSE 0)

\* C19: in pull_oecd_table_0720 an iteration whose data request returns zero
\* observations raises nothing (the iteration completes), adds no rows to
\* the frames, and the pull goes on to the next pair; when every iteration
\* is empty the pull has requested every pair and returns the empty table.
C19_EmptyResultIsNotAnError ==
  /\ \A i \in 1..Len(data_log) :
       ZeroObservations(data_log[i]) => iterations >= i
  /\ Len(concat(frames)) = ObservationsAnswered(iterations)
  /\ \A i \in 1..Len(frames) : frames[i] # <<>>
  /\ (/\ data_log # <<>>
      /\ ZeroObservations(data_log[Len(data_log)])
      /\ iterations = Len(data_log))
     => ppc \in {"loop", "returned"} /\ pull_error = NoError
  /\ (/\ ppc = "returned"
      /\ \A i \in 1..Len(data_log) : ZeroObservations(data_log[i]))
     => /\ pull_result = <<>>
        /\ pull_error = NoError
        /\ data_calls = Len(ref_areas) * Len(instruments)

\* a pull over four pairs, answered without dataSets and with empty
\* observation maps, has returned the empty table
C19_Witness ==
  /\ ppc = "returned"
  /\ Len(data_log) = 4
  /\ \A i \in 1..4 : ZeroObservations(data_log[i])
  /\ \E i \in 1..4 : ~data_log[i].payload.dataSets
  /\ \E i \in 1..4 : data_log[i].payload.dataSets
  /\ pull_result = <<>>

\* at least one attempt was made and every attempt raised
EveryAttemptFailed ==
  /\ attempt_errs # <<>>
  /\ \A i \in 1..Len(attempt_errs) : attempt_errs[i] # NoError

LastAttemptError == attempt_errs[Len(attempt_errs)]

\* C20: when every attempt of _get_text_with_retry, fetch_data or _get has
\* failed, the call does not return; once it has raised, exactly the
\* configured number of attempts were made and the exception raised is the
\* one of the last attempt (BIS, Data360) or a RuntimeError that carries the
\* last attempt's error (IMF).
C20_BudgetExhausted ==
  EveryAttemptFailed =>
    /\ cpc \in {"loop", "raised"}
    /\ client_result = NoResult
    /\ cpc = "raised" =>
         /\ tries = retries
         /\ Len(attempt_errs) = retries
         /\ IF client = "imf"
            THEN /\ client_error = <<"RuntimeError">>
                 /\ client_cause = LastAttemptError
            ELSE client_error = LastAttemptError

\* three attempts failed, the first and the last with different errors,
\* and the call has raised
C20_Witness ==
  /\ EveryAttemptFailed
  /\ cpc = "raised"
  /\ retries = 3
  /\ Len(attempt_errs) = 3
  /\ attempt_errs[1] # attempt_errs[3]
  /\ attempt_errs[2] # attempt_errs[3]

\* every call of the three clients ends
ClientEnds == <>ClientTerminated

(***************************************************************************)
(* Claims about the kinds of error of the pull.                            *)
(***************************************************************************)
\* the kind of an error: the class of the exception, without its message
ErrorKind(e) == e[1]

\* the kinds _find_code_by_label raises when no code matches: for a
\* dimension without values and for one whose values match no pattern
CodeResolutionKinds ==
  {ErrorKind(_find_code_by_label(<<>>, <<>>, <<>>, FALSE).error),
   ErrorKind(_find_code_by_label(LongDimension, <<>>, <<>>, FALSE).error)}

\* the pull raised at the check of the required dimensions (line 523)
RequiredDimensionError ==
  ppc = "raised" /\ roles # NoRoles /\ required_role_missing(roles)

\* the pull raised in _build_key: an iteration began and raised before its
\* data request
KeyStructureError ==
  ppc = "raised" /\ pull_overrides # <<>> /\ Len(data_log) = iterations

\* C21: a structure error (required dimension missing, or template/catalog
\* length mismatch in _build_key) is of another kind than the
\* code-resolution errors of _find_code_by_label.
C21_DistinguishableErrorKinds ==
  (RequiredDimensionError \/ KeyStructureError)
  => ErrorKind(pull_error) \notin CodeResolutionKinds

(***************************************************************************)
(* Further claims about fetch_structure.                                   *)
(***************************************************************************)
\* C22: a call with a truthy refresh flag that returns while a cache file
\* exists has issued a network request, and the cache file then holds the
\* document the call fetched (the catalog returned is the catalog of the
\* cache file); a call with the flag off issues its first network request
\* only when there is no cache file.
C22_ForcedRefresh ==
  /\ (spc = "returned" /\ _is_truthy(refresh) /\ cache # NoFile)
     => /\ net_calls >= 1
        /\ catalog = _parse_structure_xml(cache)
  /\ (/\ spc \in {"dsd_loop", "direct"}
      /\ net_calls = 0
      /\ ~_is_truthy(refresh))
     => cache = NoFile

\* the part of C22 that holds: the cache file is ignored under a truthy
\* flag, and is read without any network request when the flag is off
RefreshSkipsCache ==
  /\ (spc = "returned" /\ _is_truthy(refresh)) => net_calls >= 1
  /\ (/\ spc \in {"dsd_loop", "direct"}
      /\ net_calls = 0
      /\ ~_is_truthy(refresh))
     => cache = NoFile

(***************************************************************************)
(* Claims about the loop of pull_oecd_table_0720.                          *)
(***************************************************************************)
Pairs == Len(ref_areas) * Len(instruments)

\* the key of the i-th pair in area-major order
PairKey(i) ==
  _build_key([d \in 1..Len(pull_catalog) |-> pull_catalog[d].id],
             pull_template,
             build_overrides(roles, role_codes,
                             ref_areas[((i - 1) \div Len(instruments)) + 1],
                             instruments[((i - 1) % Len(instruments)) + 1])).key

\* the table decoded from the answer of a data request
DecodedTable(answer) ==
  IF answer.kind = "json" /\ answer.payload.dataSets
  THEN _sdmx_json_to_tidy(answer.payload, pull_dim_rename(roles)).rows
  ELSE <<>>

\* the tables of the first n data requests, concatenated in request order
RECURSIVE TablesInOrder(_)
TablesInOrder(n) ==
  IF n = 0 THEN <<>> ELSE TablesInOrder(n - 1) \o DecodedTable(data_log[n])

\* C23: one key and one data call per (reference area, instrument) pair, in
\* area-major order, none before the structure fetch and the resolutions
\* have succeeded; the table returned is the concatenation, in that order,
\* of the decoded tables.
C23_OncePerIteration ==
  /\ Len(pull_keys) = data_calls
  /\ Len(data_log) = data_calls
  /\ data_calls > 0 =>
       /\ ppc \in {"loop", "returned", "raised"}
       /\ ~required_role_missing(roles)
       /\ ref_areas # <<>> /\ instruments # <<>>
       /\ data_calls <= Pairs
       /\ \A i \in 1..data_calls : pull_keys[i] = PairKey(i)
  /\ ppc = "returned" =>
       /\ data_calls = Pairs
       /\ iterations = Pairs
       /\ pull_result = TablesInOrder(data_calls)

\* a pull over four pairs has returned; two of its requests were answered
\* with different non-empty tables and the four keys differ
C23_Witness ==
  /\ ppc = "returned"
  /\ data_calls = 4
  /\ \A i, j \in 1..4 : i # j => pull_keys[i] # pull_keys[j]
  /\ Len(frames) >= 2
  /\ frames[1] # frames[2]
  /\ pull_result = frames[1] \o frames[2]

(***************************************************************************)
(* Claims about _parse_structure_xml.                                      *)
(***************************************************************************)
\* the codelist the i-th declared dimension refers to is absent, or no
\* codelist of the document has that id
Unresolved(i) ==
  \/ xml_doc.dim_list[i].ref = PyNone
  \/ \A c \in 1..Len(xml_doc.codelists) :
       xml_doc.codelists[c].id # xml_doc.dim_list[i].ref

\* C24: for a well-formed document the parse returns; the dimension
\* sequence and the catalog hold the declared dimensions, all of them and
\* in declared order; a dimension whose codelist reference is absent or
\* names no codelist of the document has the empty code set in both.
C24_TolerantParsing ==
  /\ (parse_pc # "call" /\ xml_doc.xml) => parse_pc = "returned"
  /\ parse_pc = "returned" =>
       /\ Len(parsed.series_dims) = Len(xml_doc.dim_list)
       /\ Len(parsed.dim_values) = Len(xml_doc.dim_list)
       /\ \A i \in 1..Len(xml_doc.dim_list) :
            /\ parsed.series_dims[i].id = xml_doc.dim_list[i].id
            /\ parsed.dim_values[i][1] = xml_doc.dim_list[i].id
            /\ parsed.dim_values[i][2] = parsed.series_dims[i].values
            /\ Unresolved(i) => parsed.series_dims[i].values = <<>>

\* a document with a codelist and two dimensions: the first one refers to
\* no codelist of the document, the second one to a codelist with codes
C24_Witness ==
  /\ parse_pc = "returned"
  /\ Len(xml_doc.dim_list) = 2
  /\ Unresolved(1)
  /\ xml_doc.dim_list[1].ref # PyNone
  /\ ~Unresolved(2)
  /\ parsed.series_dims[2].values # <<>>

(***************************************************************************)
(* Claims about the cache file and the candidate URLs of fetch_structure.  *)
(***************************************************************************)
\* C25: the cache file only ever holds a document that parses, and no call
\* fails with a parse error on a document it read from the cache.
C25_CacheHoldsParseableDocument ==
  /\ cache # NoFile => parses(cache)
  /\ ~(spc = "raised" /\ net_calls = 0 /\ struct_error = <<"ParseError">>)

\* the current call took the path of a flow reference that names a DSD
OnDsdPath == has_dsd_id(flow_ref) /\ trail.requests # <<>>

LastRequest == trail.requests[Len(trail.requests)]

\* the i-th candidate in the order agency then "OECD", version then
\* "latest", three URL shapes each
CandidateInOrder(i) ==
  LET a == (i - 1) \div 6
      v == ((i - 1) \div 3) % 2
      u == (i - 1) % 3
  IN  [agency |-> IF a = 0 THEN split(flow_ref, ",")[1] ELSE <<"OECD">>,
       version |-> IF u = 2 THEN <<>>
                   ELSE IF v = 0 THEN split(flow_ref, ",")[3] ELSE <<"latest">>,
       shape |-> UrlShapes[u + 1]]

\* C26: on the DSD path the candidates are requested in the fixed order;
\* every request before the last one of the call was answered 404; a 200
\* ends the search; another HTTP error is raised at once; when the twelve
\* candidates answered 404 that error is raised and the cache file is the
\* one the call found.
C26_CandidateFallThrough ==
  OnDsdPath =>
    /\ Len(trail.requests) <= DsdCandidates
    /\ \A i \in 1..Len(trail.requests) :
         trail.requests[i].url = CandidateInOrder(i)
    /\ \A i \in 1..(Len(trail.requests) - 1) : trail.requests[i].status = 404
    /\ LastRequest.status = 200 => StructDone
    /\ LastRequest.status \in {401, 500} =>
         /\ spc = "raised"
         /\ struct_error = <<"HTTPError", LastRequest.status>>
    /\ LastRequest.status = 404 =>
         /\ cache = trail.entry_cache
         /\ IF Len(trail.requests) = DsdCandidates
            THEN spc = "raised" /\ struct_error = <<"HTTPError", 404>>
            ELSE spc = "dsd_loop" /\ cand = Len(trail.requests) + 1
    /\ StructDone /\ struct_error # NoError /\ LastRequest.status # 200
       => cache = trail.entry_cache

\* the twelve candidates answered 404 and the call raised, with a cache
\* file of an earlier call in place
C26_Witness ==
  /\ OnDsdPath
  /\ Len(trail.requests) = DsdCandidates
  /\ LastRequest.status = 404
  /\ spc = "raised"
  /\ cache # NoFile
  /\ _is_truthy(refresh)

\* the fifth candidate succeeded after four 404 answers
C26_FallThroughThenSuccess ==
  /\ OnDsdPath
  /\ Len(trail.requests) = 5
  /\ LastRequest.status = 200
  /\ spc = "returned"

(***************************************************************************)
(* Claims about a failing iteration of pull_oecd_table_0720.               *)
(***************************************************************************)
\* the exception _sdmx_json_to_tidy raises for the answer (NoError if none)
DecodeErrorOf(answer) ==
  IF answer.kind = "json" /\ answer.payload.dataSets
  THEN _sdmx_json_to_tidy(answer.payload, pull_dim_rename(roles)).error
  ELSE NoError

\* the data request or the decoding of the i-th data request raised
IterationFailed(i) ==
  data_log[i].kind = "HTTPError" \/ DecodeErrorOf(data_log[i]) # NoError

\* the key construction of the pair after the completed iterations raised
KeyFailed ==
  /\ pull_overrides # <<>>
  /\ iterations < Pairs
  /\ Len(data_log) = iterations
  /\ _build_key([d \in 1..Len(pull_catalog) |-> pull_catalog[d].id], pull_template,
                pull_overrides).kpc = "raised"

\* C27: when the data request, the key construction or the decoding of an
\* iteration raises, the pull has raised that error, returns no table (not
\* the rows of the earlier iterations either), and the failed iteration is
\* the last one that issued a data request.
C27_IterationErrorAborts ==
  /\ \A i \in 1..Len(data_log) :
       IterationFailed(i) =>
         /\ i = Len(data_log)
         /\ data_calls = i
         /\ iterations = i - 1
         /\ ppc = "raised"
         /\ pull_result = <<>>
         /\ pull_error = IF data_log[i].kind = "HTTPError" THEN <<"HTTPError">>
                         ELSE DecodeErrorOf(data_log[i])
  /\ KeyFailed =>
       /\ ppc = "raised"
       /\ pull_result = <<>>
       /\ data_calls = iterations
       /\ pull_error = _build_key([d \in 1..Len(pull_catalog) |-> pull_catalog[d].id],
                                  pull_template, pull_overrides).error
  /\ ppc = "raised" => pull_result = <<>> /\ pull_error # NoError

\* the decoding of the second of four iterations raised after the first one
\* had decoded rows: the pull raised, with those rows in frames
C27_Witness ==
  /\ ppc = "raised"
  /\ Pairs = 4
  /\ Len(data_log) = 2
  /\ DecodeErrorOf(data_log[2]) # NoError
  /\ frames # <<>>
  /\ pull_result = <<>>

\* the key construction raised
C27_KeyWitness == KeyFailed /\ ppc = "raised"

(***************************************************************************)
(* Claims about the pagination of Data360Client.iter_data.                 *)
(***************************************************************************)
\* the records yielded before the i-th request
RECURSIVE YieldedBefore(_)
YieldedBefore(i) ==
  IF i <= 1 THEN 0 ELSE YieldedBefore(i - 1) + Len(pages[i - 1].records)

\* every page received so far carries the constant count, and the page of
\* a skip below the count is non-empty and holds the records from the skip on
GoodServer ==
  \A i \in 1..Len(pages) :
    /\ pages[i].count = <<server_total>>
    /\ pages[i].skip < server_total =>
         /\ pages[i].records # <<>>
         /\ pages[i].skip + Len(pages[i].records) <= server_total
         /\ pages[i].records = RecordsFrom(pages[i].skip, Len(pages[i].records))

IterationEnded == ipc \in {"done", "raised"}

PaginationInv ==
  paginate =>
    /\ \A i \in 1..Len(pages) : pages[i].skip = initial_skip + YieldedBefore(i)
    /\ GoodServer =>
         /\ yielded = RecordsFrom(initial_skip, Len(yielded))
         /\ Len(yielded) <= Max(server_total - initial_skip, 0)
         /\ ipc = "done" =>
              yielded = RecordsFrom(initial_skip, Max(server_total - initial_skip, 0))
    /\ \A i \in 1..(Len(pages) - 1) :
         pages[i].records # <<>> /\ pages[i].count # NoCount
    /\ (/\ pages # <<>>
        /\ \/ pages[Len(pages)].records = <<>>
           \/ pages[Len(pages)].count = NoCount)
       => ipc = "done"

\* C28: with paginate on, every request carries the initial skip plus the
\* number of records yielded so far; against a server with a constant count
\* and non-empty pages the records from the initial skip to the last one
\* are yielded once each and in order; no request follows an empty page or
\* a page without count; and the iteration ends.
C28_Pagination == []PaginationInv /\ <>IterationEnded

\* three records from skip 1 of a server with four records, received in
\* two pages, the first one of two records
C28_Witness ==
  /\ paginate
  /\ ipc = "done"
  /\ GoodServer
  /\ server_total = 4
  /\ initial_skip = 1
  /\ Len(pages) = 2
  /\ Len(pages[1].records) = 2
  /\ yielded = <<1, 2, 3>>

(***************************************************************************)
(* Claims about the year chunks of the IMF pull.                           *)
(***************************************************************************)
ChunksDisjoint ==
  \A i, j \in 1..Len(year_chunks) :
    i < j => year_chunks[i][2] < year_chunks[j][1]

ChunksInside ==
  \A i \in 1..Len(year_chunks) :
    start_year <= year_chunks[i][1] /\ year_chunks[i][2] <= end_year

ChunksCover ==
  \A y \in start_year..end_year :
    \E i \in 1..Len(year_chunks) : year_chunks[i][1] <= y /\ y <= year_chunks[i][2]

\* C29: the default chunks are pairwise disjoint, every chunk lies inside
\* [start_year, end_year], together they cover every year of it, and the
\* periods requested are those chunks.
C29_YearChunks ==
  /\ chpc \in {"loop", "returned", "raised"} =>
       ChunksDisjoint /\ ChunksInside /\ ChunksCover
  /\ chpc = "returned" => periods = year_chunks

\* the part of C29 that holds: disjoint chunks that cover the years asked
ChunksDisjointAndCover ==
  /\ chpc \in {"loop", "returned", "raised"} => ChunksDisjoint /\ ChunksCover
  /\ chpc = "returned" => periods = year_chunks

(***************************************************************************)
(* Claims about the batches of the BIS pulls.                              *)
(***************************************************************************)
\* the batches, joined in order
RECURSIVE Joined(_)
Joined(bs) == IF bs = <<>> THEN <<>> ELSE bs[1] \o Joined(Tail(bs))

\* C30: for a positive batch size the batches, joined in order, are the
\* list of codes, and every batch is non-empty and holds at most
\* batch_size codes; for a batch size of 0 or less there is one batch, the
\* whole list; the data requests issued are those of the batches, one per
\* batch and in order.
C30_Batching ==
  /\ bpc \in {"loop", "returned", "raised"} =>
       /\ Joined(batches) = bis_ref_areas
       /\ IF batch_size > 0
          THEN \A k \in 1..Len(batches) :
                 batches[k] # <<>> /\ Len(batches[k]) <= batch_size
          ELSE batches = <<bis_ref_areas>>
       /\ Len(batch_calls) <= Len(batches)
       /\ \A k \in 1..Len(batch_calls) : batch_calls[k] = batches[k]
  /\ bpc = "returned" => Len(batch_calls) = Len(batches)

\* four codes in batches of three: two requests, of three codes and of one
C30_Witness ==
  /\ bpc = "returned"
  /\ Len(bis_ref_areas) = 4
  /\ batch_size = 3
  /\ Len(batch_calls) = 2
  /\ Len(batch_calls[1]) = 3
  /\ Len(batch_calls[2]) = 1

\* a batch size of 0: one request with the whole list
C30_SingleBatch ==
  /\ bpc = "returned"
  /\ batch_size = 0
  /\ Len(bis_ref_areas) = 4
  /\ batch_calls = <<bis_ref_areas>>

====
